---- MODULE Spec2Model ----
(***************************************************************************)
(* Network policy controller of kube-router (pkg/controllers/netpol):      *)
(* the full-sync request loop of Run, the phases of fullPolicySync and the *)
(* host state (iptables filter table, ipsets) they act on.                 *)
(***************************************************************************)
EXTENDS Integers, Sequences, FiniteSets, TLC

\* ------------------------------------------------------------------ bounds
\* Full syncs the consumer may start in one behaviour (syncVersion is a
\* clock reading, so every sync has its own version).
MaxSyncs == 3
\* Requests counted in one burst while a sync is in flight.
MaxBurst == 3

\* --------------------------------------------------------------- constants
kubePodFirewallChainPrefix == "KUBE-POD-FW-"
kubeNetworkPolicyChainPrefix == "KUBE-NWPLCY-"
kubeSourceIPSetPrefix == "KUBE-SRC-"
kubeDestinationIPSetPrefix == "KUBE-DST-"
kubeInputChainName == "KUBE-ROUTER-INPUT"
kubeForwardChainName == "KUBE-ROUTER-FORWARD"
kubeOutputChainName == "KUBE-ROUTER-OUTPUT"
KubeDefaultPodFWChain == "KUBE-POD-FW-DEFAULT"
kubeIngressNetpolChain == "KUBE-NWPLCY-DEFAULT-INGRESS"
kubeEgressNetpolChain == "KUBE-NWPLCY-DEFAULT-EGRESS"

\* make(chan struct{}, 1): the capacity of fullSyncRequestChan.
ChanCap == 1
\* encoded[:16]: the length of the token of a chain name.
TokenLen == 16

\* The node this controller runs on and its configuration.
nodeIP == "n1"
nodePodIPCIDR == "10.1.2.0/24"
serviceClusterIPRange == "10.96.0.0/12"
serviceNodePortRange == "30000:32767"

\* ------------------------------------------------------------ cluster data
\* The pods the lister may hold: two on this node, one on another node (with
\* the two IPs it may have).  A pod is its namespace and name, its status
\* (pod IP, host IP, phase), whether it is in the host network, and its labels.
PodUniverse ==
  { [namespace |-> "a", name |-> "p1", ip |-> "10.1.2.5", hostIP |-> "n1", hostNetwork |-> FALSE,
     phase |-> "Running", labels |-> {}],
    [namespace |-> "a", name |-> "p2", ip |-> "10.1.2.6", hostIP |-> "n1", hostNetwork |-> FALSE,
     phase |-> "Running", labels |-> {}],
    [namespace |-> "a", name |-> "r1", ip |-> "10.1.5.7", hostIP |-> "n2", hostNetwork |-> FALSE,
     phase |-> "Running", labels |-> {}],
    [namespace |-> "a", name |-> "r1", ip |-> "10.1.5.8", hostIP |-> "n2", hostNetwork |-> FALSE,
     phase |-> "Running", labels |-> {}] }

\* The network policies the lister may hold; targets are pod names of the
\* policy's namespace, policyTypes is what the policy declares (the policy
\* has ingress rules and declares no type).
PolicyUniverse ==
  { [namespace |-> "a", name |-> "np1", targets |-> {"p1"}, peers |-> {"r1"},
     policyTypes |-> {}] }

VARIABLES
  pods,                 \* podLister: the pods in the cache
  policies,             \* npLister: the network policies in the cache
  fullSyncRequestChan,  \* number of requests in the single-slot channel
  readyForUpdates,      \* npc.readyForUpdates
  stopCh,               \* TRUE once stopCh is closed
  mu,                   \* npc.mu is held
  consumerPc,           \* position of the full sync goroutine of Run
  tickerPc,             \* position of the ticker loop of Run
  calls,                \* calls of fullPolicySync that have not returned
  syncPc,               \* position of the execution holding npc.mu
  syncVersion,          \* number of syncs started (stands for start.UnixNano())
  sync,                 \* locals of the running fullPolicySync
  filter,               \* the kernel filter table: chain name -> rules
  ipsets,               \* the ipsets of the host: name -> members
  pre,                  \* host state when the running sync took the mutex
  steps,                \* phases the running (or last) sync has executed
  burst,                \* bookkeeping of requests issued during a sync
  construction          \* the call of NewNetworkPolicyController: its config and result

vars == << pods, policies, fullSyncRequestChan, readyForUpdates, stopCh, mu,
           consumerPc, tickerPc, calls, syncPc, syncVersion, sync, filter,
           ipsets, pre, steps, burst, construction >>

\* ------------------------------------------------------------------- names
Digit == <<"0", "1", "2", "3", "4", "5", "6", "7", "8", "9">>

RECURSIVE FormatInt(_)
\* strconv.FormatInt(n, 10)
FormatInt(n) ==
  IF n < 10 THEN Digit[n + 1] ELSE FormatInt(n \div 10) \o Digit[(n % 10) + 1]

\* ------------------------------------------------------- the node port range
\* strconv.ParseInt(matches[k], 10, 16): the size in bits of the result.
PortBitSize == 16

RECURSIVE Power(_, _)
Power(b, e) == IF e = 0 THEN 1 ELSE b * Power(b, e - 1)

\* The text is one or more decimal digits: ([0-9]+).
AllDigits(s) ==
  /\ Len(s) >= 1
  /\ \A k \in 1..Len(s) : \E d \in 1..Len(Digit) : SubSeq(s, k, k) = Digit[d]

\* nodePortValidator.FindStringSubmatch for ^([0-9]+)[:-]{1}([0-9]+)$: the
\* whole text and its two groups, or nothing when the text does not match.
FindStringSubmatch(s) ==
  LET at == { k \in 1..Len(s) :
                /\ SubSeq(s, k, k) \in {":", "-"}
                /\ AllDigits(SubSeq(s, 1, k - 1))
                /\ AllDigits(SubSeq(s, k + 1, Len(s))) }
  IN IF at = {} THEN <<>>
     ELSE LET k == CHOOSE x \in at : TRUE
          IN <<s, SubSeq(s, 1, k - 1), SubSeq(s, k + 1, Len(s))>>

RECURSIVE DecimalValue(_)
DecimalValue(s) ==
  IF Len(s) = 0 THEN 0
  ELSE DecimalValue(SubSeq(s, 1, Len(s) - 1)) * 10
       + ((CHOOSE d \in 1..Len(Digit) : SubSeq(s, Len(s), Len(s)) = Digit[d]) - 1)

\* A parse that accepts every value.
ParseIntAnySize(s, bitSize) == [n |-> DecimalValue(s), err |-> ""]

\* strconv.ParseInt(s, 10, bitSize) of a text of digits: a value that does
\* not fit a signed integer of the size is a range error.
ParseInt(s, bitSize) ==
  LET n == DecimalValue(s)
      max == Power(2, bitSize - 1) - 1
  IN IF n > max THEN [n |-> max, err |-> "value out of range"] ELSE [n |-> n, err |-> ""]

\* The part of NewNetworkPolicyController that validates config.NodePortRange:
\* the error it returns ("" for none) and npc.serviceNodePortRange.
ParseNodePortRange(NodePortRange) ==
  LET matches == FindStringSubmatch(NodePortRange)
      Failed(err) == [err |-> err, serviceNodePortRange |-> ""]
  IN IF matches = <<>> THEN Failed("failed to parse node port range given")
     ELSE IF Len(matches) # 3 THEN Failed("could not parse port number from range given")
     ELSE LET port1 == ParseInt(matches[2], PortBitSize)
              port2 == ParseInt(matches[3], PortBitSize)
          IN IF port1.err # "" THEN Failed("could not parse first port number")
             ELSE IF port2.err # "" THEN Failed("could not parse second port number")
             ELSE IF port1.n >= port2.n
                  THEN Failed("port 1 is greater than or equal to port 2")
                  ELSE [err |-> "",
                        serviceNodePortRange |-> FormatInt(port1.n) \o ":" \o FormatInt(port2.n)]

\* The texts a node port range is written with: what stands for a port (with
\* the number it denotes when it is a number), and what stands between.
PortTexts ==
  { [text |-> "0", isNumber |-> TRUE, n |-> 0],
    [text |-> "80", isNumber |-> TRUE, n |-> 80],
    [text |-> "080", isNumber |-> TRUE, n |-> 80],
    [text |-> "30000", isNumber |-> TRUE, n |-> 30000],
    [text |-> "32767", isNumber |-> TRUE, n |-> 32767],
    [text |-> "32768", isNumber |-> TRUE, n |-> 32768],
    [text |-> "65535", isNumber |-> TRUE, n |-> 65535],
    [text |-> "65536", isNumber |-> TRUE, n |-> 65536],
    [text |-> "100000", isNumber |-> TRUE, n |-> 100000],
    [text |-> "", isNumber |-> FALSE, n |-> 0],
    [text |-> "8a", isNumber |-> FALSE, n |-> 0],
    [text |-> " 80", isNumber |-> FALSE, n |-> 0] }
SeparatorTexts == {":", "-", "", "::", ",", ":-"}

\* A call of NewNetworkPolicyController with a node port range written as
\* first, separator, second, before it has returned.
Config(first, separator, second) ==
  [first |-> first, separator |-> separator, second |-> second,
   NodePortRange |-> first.text \o separator \o second.text,
   returned |-> FALSE, err |-> "", controller |-> FALSE, serviceNodePortRange |-> ""]

\* The controller of the other specifications: constructed with the range
\* 30000-32767.
Constructed ==
  LET config == Config(CHOOSE t \in PortTexts : t.text = "30000", "-",
                       CHOOSE t \in PortTexts : t.text = "32767")
      result == ParseNodePortRange(config.NodePortRange)
  IN [config EXCEPT !.returned = TRUE, !.err = result.err, !.controller = result.err = "",
                    !.serviceNodePortRange = result.serviceNodePortRange]

\* The encoded digest as a whole, not cut to its first characters.
HashWhole(s) == s \o "================"

\* base32(sha256(s))[:16]: a token of exactly TokenLen characters.  The
\* digest is taken to be injective on the inputs of the model (none is longer
\* than TokenLen, none holds "="), so the token is the input, padded.
Hash16(s) ==
  IF Len(s) >= TokenLen THEN SubSeq(s, 1, TokenLen)
  ELSE s \o SubSeq("================", 1, TokenLen - Len(s))

\* The token alone, the prefix left out.
podFirewallChainNameBare(namespace, podName, version) ==
  Hash16(namespace \o podName \o version)

\* podFirewallChainName: the prefix and the first 16 characters of the encoded
\* digest of namespace + podName + version.
podFirewallChainName(namespace, podName, version) ==
  kubePodFirewallChainPrefix \o Hash16(namespace \o podName \o version)

networkPolicyChainName(namespace, policyName, version) ==
  kubeNetworkPolicyChainPrefix \o Hash16(namespace \o policyName \o version)

policySourcePodIPSetName(namespace, policyName) ==
  kubeSourceIPSetPrefix \o Hash16(namespace \o policyName)

policyDestinationPodIPSetName(namespace, policyName) ==
  kubeDestinationIPSetPrefix \o Hash16(namespace \o policyName)

\* strings.HasPrefix(s, prefix)
HasPrefix(s, prefix) ==
  Len(s) >= Len(prefix) /\ SubSeq(s, 1, Len(prefix)) = prefix

\* ---------------------------------------------------------------- iptables
\* A rule is its match, its target and the chain its comment names ("" when
\* the comment names none).  A table maps each chain to its rules in order.
MkRule(m, j, c) == [m |-> m, j |-> j, c |-> c]

BuiltinChains == {"INPUT", "FORWARD", "OUTPUT"}

\* strings.Contains(rule, chainName) on a rule of chain `chain`, as printed by
\* iptables -S or iptables-save ("-A <chain> <match> <comment> -j <target>").
\* Chain names with an engine prefix have one length, so one occurs in a line
\* only as the chain, as the target or in the comment.
RuleContains(chain, rule, chainName) ==
  chainName \in {chain, rule.j, rule.c}

RECURSIVE IndexOf(_, _, _)
\* 1-based index of the first rule of rules[i..] equal to rule, 0 if none.
IndexOf(rules, rule, i) ==
  IF i > Len(rules) THEN 0
  ELSE IF rules[i] = rule THEN i
  ELSE IndexOf(rules, rule, i + 1)

\* iptables -N: exit status 1 (chain exists) is ignored by every caller.
NewChain(t, chain) ==
  IF chain \in DOMAIN t THEN t
  ELSE [c \in DOMAIN t \cup {chain} |-> IF c = chain THEN <<>> ELSE t[c]]

\* iptables -C
Exists(t, chain, rule) == IndexOf(t[chain], rule, 1) # 0

\* iptables -I <chain> <position>; a position past the end is refused by
\* iptables (the callers then stop the process), the table is left as it is.
Insert(t, chain, position, rule) ==
  IF position < 1 \/ position > Len(t[chain]) + 1 THEN t
  ELSE [t EXCEPT ![chain] =
          SubSeq(@, 1, position - 1) \o <<rule>> \o SubSeq(@, position, Len(@))]

\* iptables -D <chain> <rulenum>
Delete(t, chain, ruleNo) ==
  IF ruleNo < 1 \/ ruleNo > Len(t[chain]) THEN t
  ELSE [t EXCEPT ![chain] =
          SubSeq(@, 1, ruleNo - 1) \o SubSeq(@, ruleNo + 1, Len(@))]

\* An append that does not look for the rule in the chain first.
AppendAlways(t, chain, rule) == [t EXCEPT ![chain] = Append(@, rule)]

\* go-iptables AppendUnique: -C, then -A when the rule is absent.
AppendUnique(t, chain, rule) ==
  IF Exists(t, chain, rule) THEN t
  ELSE [t EXCEPT ![chain] = Append(@, rule)]

\* ------------------------------------------------- top-level chain installer
netpolAllowPreCheck == FALSE
serviceExternalIPRanges == <<"192.0.2.0/24">>

\* A closure that inserts the rule when the chain does not have it and leaves
\* a rule that is in the chain where it is.
ensureRuleExists(t, chain, rule, position) ==
  IF ~Exists(t, chain, rule) THEN Insert(t, chain, position, rule) ELSE t

\* The closure ensureRuleAtPosition of ensureTopLevelChains.  The rule carries
\* its uuid in its comment, so the rule that "contains the uuid" is the first
\* rule of the chain equal to it.
ensureRuleAtPosition(t, chain, rule, position) ==
  IF ~Exists(t, chain, rule) THEN Insert(t, chain, position, rule)
  ELSE LET ruleNo == IndexOf(t[chain], rule, 1)
       IN IF ruleNo # position
          THEN Delete(Insert(t, chain, position, rule), chain, ruleNo + 1)
          ELSE t

\* A jump from a built-in chain that is not restricted to the pod CIDR.
RuleBuiltinJumpUnqualified(match, customChain) == MkRule("", customChain, "")

\* The jump from a built-in chain to a custom chain, with the match given.
RuleBuiltinJump(match, customChain) == MkRule(match, customChain, "")
RuleWhitelistServiceVips == MkRule("-d " \o serviceClusterIPRange, "RETURN", "")
RuleWhitelistTCPNodeports ==
  MkRule("-p tcp --dst-type LOCAL --dports " \o serviceNodePortRange, "RETURN", "")
RuleWhitelistUDPNodeports ==
  MkRule("-p udp --dst-type LOCAL --dports " \o serviceNodePortRange, "RETURN", "")
RuleWhitelistExternalIP(externalIPRange) ==
  MkRule("-d " \o externalIPRange, "RETURN", "")
RuleMarkAccept == MkRule("--mark 0x20000/0x20000", "ACCEPT", "")
RuleDefaultPodFW == MkRule("", KubeDefaultPodFWChain, "")

CustomChains == <<kubeInputChainName, kubeForwardChainName, kubeOutputChainName>>

RECURSIVE EnsureExternalIPs(_, _)
EnsureExternalIPs(t, externalIPIndex) ==
  IF externalIPIndex >= Len(serviceExternalIPRanges) THEN t
  ELSE EnsureExternalIPs(
         ensureRuleAtPosition(t, kubeInputChainName,
           RuleWhitelistExternalIP(serviceExternalIPRanges[externalIPIndex + 1]),
           externalIPIndex + 4),
         externalIPIndex + 1)

RECURSIVE AppendTail(_, _)
\* The last loop of ensureTopLevelChains: the mark-accept rule and the jump
\* to the default pod firewall are appended to each custom chain if absent.
AppendTail(t, i) ==
  IF i > Len(CustomChains) THEN t
  ELSE AppendTail(
         AppendUnique(AppendUnique(t, CustomChains[i], RuleMarkAccept),
                      CustomChains[i], RuleDefaultPodFW),
         i + 1)

ensureTopLevelChains(t0) ==
  LET t1 == NewChain(NewChain(NewChain(t0, kubeInputChainName),
                              kubeForwardChainName), kubeOutputChainName)
      t2 == IF nodePodIPCIDR # ""
            THEN LET a == ensureRuleAtPosition(t1, "INPUT",
                            RuleBuiltinJump("-s " \o nodePodIPCIDR, kubeInputChainName), 1)
                     b == ensureRuleAtPosition(a, "OUTPUT",
                            RuleBuiltinJump("-d " \o nodePodIPCIDR, kubeOutputChainName), 1)
                     c == ensureRuleAtPosition(b, "FORWARD",
                            RuleBuiltinJump("-s " \o nodePodIPCIDR, kubeForwardChainName), 1)
                 IN ensureRuleAtPosition(c, "FORWARD",
                            RuleBuiltinJump("-d " \o nodePodIPCIDR, kubeForwardChainName), 2)
            ELSE LET a == ensureRuleAtPosition(t1, "INPUT",
                            RuleBuiltinJump("", kubeInputChainName), 1)
                     b == ensureRuleAtPosition(a, "FORWARD",
                            RuleBuiltinJump("", kubeForwardChainName), 1)
                 IN ensureRuleAtPosition(b, "OUTPUT",
                            RuleBuiltinJump("", kubeOutputChainName), 1)
      t3 == ensureRuleAtPosition(t2, kubeInputChainName, RuleWhitelistServiceVips, 1)
      t4 == ensureRuleAtPosition(t3, kubeInputChainName, RuleWhitelistTCPNodeports, 2)
      t5 == ensureRuleAtPosition(t4, kubeInputChainName, RuleWhitelistUDPNodeports, 3)
      t6 == EnsureExternalIPs(t5, 0)
  IN AppendTail(t6, 1)

RuleMarkPolicyMatched == MkRule("", "MARK --set-xmark 0x10000/0x10000", "")

ensureDefaultNetworkPolicyChains(t0) ==
  LET t1 == AppendUnique(NewChain(t0, kubeIngressNetpolChain),
                         kubeIngressNetpolChain, RuleMarkPolicyMatched)
  IN AppendUnique(NewChain(t1, kubeEgressNetpolChain),
                  kubeEgressNetpolChain, RuleMarkPolicyMatched)

defaultAction == IF netpolAllowPreCheck THEN "ACCEPT" ELSE "REJECT"

ensureDefaultPodFWChains(t0) ==
  LET t1 == NewChain(t0, KubeDefaultPodFWChain)
  IN IF nodePodIPCIDR = "" THEN t1
     ELSE AppendUnique(
            AppendUnique(t1, KubeDefaultPodFWChain,
                         MkRule("-d " \o nodePodIPCIDR, defaultAction, "")),
            KubeDefaultPodFWChain,
            MkRule("-s " \o nodePodIPCIDR, defaultAction, ""))

\* ------------------------------------------------- the filter-table buffer
\* A line of the iptables-save text held in the bytes.Buffer of a sync.
LineComment == [t |-> "comment"]                \* "# ..."
LineTable == [t |-> "table"]                    \* "*filter"
LineCommit == [t |-> "commit"]                  \* "COMMIT"
LineChain(chain) == [t |-> "chain", chain |-> chain]            \* ":<chain>"
LineAppend(chain, rule) ==                                      \* "-A <chain> ..."
  [t |-> "rule", op |-> "A", chain |-> chain, rule |-> rule]
LineInsert(chain, rule) ==                                      \* "-I <chain> 1 ..."
  [t |-> "rule", op |-> "I", chain |-> chain, rule |-> rule]

\* The elements of S in the order a listing gives them.
SetToSeq(S) ==
  LET seqOf[R \in SUBSET S] ==
        IF R = {} THEN <<>>
        ELSE LET x == CHOOSE y \in R : TRUE IN <<x>> \o seqOf[R \ {x}]
  IN seqOf[S]

RECURSIVE Flatten(_)
Flatten(ss) == IF ss = <<>> THEN <<>> ELSE Head(ss) \o Flatten(Tail(ss))

\* utils.SaveInto("filter", &buf): the output of iptables-save -t filter.
SaveInto(t) ==
  LET chains == SetToSeq(DOMAIN t)
  IN <<LineComment, LineTable>>
     \o [i \in 1..Len(chains) |-> LineChain(chains[i])]
     \o Flatten([i \in 1..Len(chains) |->
                  [k \in 1..Len(t[chains[i]]) |-> LineAppend(chains[i], t[chains[i]][k])]])
     \o <<LineCommit, LineComment>>

\* ------------------------------------------------------ pod firewall chains
isLocalPod(pod, ip) == pod.hostIP = ip

\* getLocalPods: the possible results.  localPods is a map keyed by pod IP, so
\* of the pods that pass the three tests one is kept for each IP (the one the
\* lister happens to list last).
getLocalPods(lister, ip) ==
  LET passing == { p \in lister : isLocalPod(p, ip) /\ ~p.hostNetwork /\ p.ip # "" }
  IN { S \in SUBSET passing :
         /\ \A p \in passing : \E q \in S : q.ip = p.ip
         /\ \A p, q \in S : p.ip = q.ip => p = q }

PolicyTargets(pod, networkPoliciesInfo) ==
  SelectSeq(networkPoliciesInfo, LAMBDA policy : pod.ip \in policy.targetPods)

setupPodIngressRules(pod, podFwChainName, networkPoliciesInfo, version) ==
  LET applicable == PolicyTargets(pod, networkPoliciesInfo)
  IN [i \in 1..Len(applicable) |->
        LineInsert(podFwChainName,
          MkRule("", networkPolicyChainName(applicable[i].namespace, applicable[i].name, version), ""))]
     \o (IF Len(applicable) = 0
         THEN <<LineInsert(podFwChainName, MkRule("-d " \o pod.ip, kubeIngressNetpolChain, ""))>>
         ELSE <<>>)
     \o <<LineInsert(podFwChainName, MkRule("--src-type LOCAL -d " \o pod.ip, "ACCEPT", "")),
          LineInsert(podFwChainName, MkRule("--ctstate RELATED,ESTABLISHED", "ACCEPT", ""))>>

setupPodEgressRules(pod, podFwChainName, networkPoliciesInfo, version) ==
  LET applicable == PolicyTargets(pod, networkPoliciesInfo)
  IN [i \in 1..Len(applicable) |->
        LineInsert(podFwChainName,
          MkRule("", networkPolicyChainName(applicable[i].namespace, applicable[i].name, version), ""))]
     \o (IF Len(applicable) = 0
         THEN <<LineInsert(podFwChainName, MkRule("-s " \o pod.ip, kubeEgressNetpolChain, ""))>>
         ELSE <<>>)
     \o <<LineInsert(podFwChainName, MkRule("--ctstate RELATED,ESTABLISHED", "ACCEPT", ""))>>

processNonWhitelistedTrafficRules(podFwChainName) ==
  <<LineAppend(podFwChainName, MkRule("! --mark 0x10000/0x10000", "NFLOG", "")),
    LineAppend(podFwChainName, MkRule("! --mark 0x10000/0x10000", "REJECT", ""))>>

\* The tail of a per-pod chain that marks the packet as admitted and leaves
\* the mark 0x10000 on it.
processWhitelistedTrafficRulesNoReset(podFwChainName) ==
  <<LineAppend(podFwChainName, MkRule("", "MARK --set-mark 0x20000/0x20000", ""))>>

processWhitelistedTrafficRules(podFwChainName) ==
  <<LineAppend(podFwChainName, MkRule("", "MARK --set-mark 0/0x10000", "")),
    LineAppend(podFwChainName, MkRule("", "MARK --set-mark 0x20000/0x20000", ""))>>

interceptPodInboundTraffic(pod, podFwChainName) ==
  <<LineInsert(kubeForwardChainName, MkRule("-d " \o pod.ip, podFwChainName, podFwChainName)),
    LineInsert(kubeOutputChainName, MkRule("-d " \o pod.ip, podFwChainName, podFwChainName)),
    LineInsert(kubeForwardChainName,
      MkRule("--physdev-is-bridged -d " \o pod.ip, podFwChainName, podFwChainName))>>

\* Jumps for the traffic of the pod that are appended to the custom chains,
\* not inserted at their head.
interceptPodOutboundTrafficAppended(pod, podFwChainName) ==
  [i \in 1..Len(CustomChains) |->
     LineAppend(CustomChains[i], MkRule("-s " \o pod.ip, podFwChainName, podFwChainName))]

interceptPodOutboundTraffic(pod, podFwChainName) ==
  [i \in 1..Len(CustomChains) |->
     LineInsert(CustomChains[i], MkRule("-s " \o pod.ip, podFwChainName, podFwChainName))]
  \o <<LineInsert(kubeForwardChainName,
         MkRule("--physdev-is-bridged -s " \o pod.ip, podFwChainName, podFwChainName))>>

\* A pod firewall whose mark rules are written ahead of its log and reject
\* rules.
syncPodFirewallMarkFirst(pod, networkPoliciesInfo, version) ==
  LET podFwChainName == podFirewallChainName(pod.namespace, pod.name, version)
  IN setupPodIngressRules(pod, podFwChainName, networkPoliciesInfo, version)
     \o setupPodEgressRules(pod, podFwChainName, networkPoliciesInfo, version)
     \o processWhitelistedTrafficRules(podFwChainName)
     \o processNonWhitelistedTrafficRules(podFwChainName)
     \o interceptPodInboundTraffic(pod, podFwChainName)
     \o interceptPodOutboundTraffic(pod, podFwChainName)

syncPodFirewall(pod, networkPoliciesInfo, version) ==
  LET podFwChainName == podFirewallChainName(pod.namespace, pod.name, version)
  IN setupPodIngressRules(pod, podFwChainName, networkPoliciesInfo, version)
     \o setupPodEgressRules(pod, podFwChainName, networkPoliciesInfo, version)
     \o processNonWhitelistedTrafficRules(podFwChainName)
     \o processWhitelistedTrafficRules(podFwChainName)
     \o interceptPodInboundTraffic(pod, podFwChainName)
     \o interceptPodOutboundTraffic(pod, podFwChainName)

RECURSIVE fullSyncPodFirewallChains(_, _, _, _)
\* The lines written for allLocalPods (in the order the map is ranged over)
\* after currentFilterTable.
fullSyncPodFirewallChains(currentFilterTable, allLocalPods, networkPoliciesInfo, version) ==
  IF allLocalPods = <<>> THEN currentFilterTable
  ELSE LET pod == Head(allLocalPods)
       IN fullSyncPodFirewallChains(
            currentFilterTable
              \o <<LineChain(podFirewallChainName(pod.namespace, pod.name, version))>>
              \o syncPodFirewall(pod, networkPoliciesInfo, version),
            Tail(allLocalPods), networkPoliciesInfo, version)

activePodFwChainsOf(allLocalPods, version) ==
  { podFirewallChainName(allLocalPods[i].namespace, allLocalPods[i].name, version) :
      i \in 1..Len(allLocalPods) }

\* The orders in which a Go map of these pods may be ranged over.
Orders(S) ==
  { s \in [1..Cardinality(S) -> S] : \A i, j \in 1..Cardinality(S) : i # j => s[i] # s[j] }

\* ---------------------------------------------------------- policy chains
policyIndexedSourcePodIPSetName(namespace, policyName, ingressRuleNo) ==
  kubeSourceIPSetPrefix \o Hash16(namespace \o policyName \o FormatInt(ingressRuleNo))

PodIPs(lister, namespace, names) ==
  { p.ip : p \in { q \in lister : q.namespace = namespace /\ q.name \in names /\ q.ip # "" } }

\* The policy type of a networkPolicyInfo: "ingress" when the policy declares
\* neither type, otherwise what it declares.
policyTypeOf(policyTypes) ==
  IF policyTypes = {"Ingress", "Egress"} THEN "both"
  ELSE IF policyTypes = {"Egress"} THEN "egress"
  ELSE "ingress"

\* buildNetworkPoliciesInfo: one networkPolicyInfo for each policy of the
\* lister, its target pods and its peer pods keyed by pod IP.
buildNetworkPoliciesInfo(podLister, npLister) ==
  LET ps == SetToSeq(npLister)
  IN [i \in 1..Len(ps) |->
        [name |-> ps[i].name, namespace |-> ps[i].namespace,
         policyType |-> policyTypeOf(ps[i].policyTypes),
         targetPods |-> PodIPs(podLister, ps[i].namespace, ps[i].targets),
         srcPods |-> PodIPs(podLister, ps[i].namespace, ps[i].peers)]]

\* fullSyncNetworkPolicyChains: the lines written for the policies, the
\* active policy chains and ipsets, and the ipsets it creates and refreshes.
PolicyChainLines(policy, version) ==
  LET chain == networkPolicyChainName(policy.namespace, policy.name, version)
  IN <<LineChain(chain),
       LineAppend(chain,
         MkRule("match-set " \o policyIndexedSourcePodIPSetName(policy.namespace, policy.name, 0)
                  \o " src match-set "
                  \o policyDestinationPodIPSetName(policy.namespace, policy.name) \o " dst",
                "MARK --set-xmark 0x10000/0x10000", ""))>>

fullSyncNetworkPolicyChains(currentFilterTable, networkPoliciesInfo, version) ==
  currentFilterTable
    \o Flatten([i \in 1..Len(networkPoliciesInfo) |->
                  PolicyChainLines(networkPoliciesInfo[i], version)])

activePolicyChainsOf(networkPoliciesInfo, version) ==
  { networkPolicyChainName(networkPoliciesInfo[i].namespace, networkPoliciesInfo[i].name, version) :
      i \in 1..Len(networkPoliciesInfo) }

activePolicyIPSetsOf(networkPoliciesInfo) ==
  UNION { { policyIndexedSourcePodIPSetName(networkPoliciesInfo[i].namespace, networkPoliciesInfo[i].name, 0),
            policyDestinationPodIPSetName(networkPoliciesInfo[i].namespace, networkPoliciesInfo[i].name) } :
          i \in 1..Len(networkPoliciesInfo) }

\* ipSetHandler.Create + Refresh of the sets of every policy.
RefreshPolicyIPSets(sets, networkPoliciesInfo) ==
  LET names == activePolicyIPSetsOf(networkPoliciesInfo)
      MembersOf(n) ==
        LET i == CHOOSE k \in 1..Len(networkPoliciesInfo) :
                   n \in activePolicyIPSetsOf(<<networkPoliciesInfo[k]>>)
        IN IF HasPrefix(n, kubeSourceIPSetPrefix)
           THEN networkPoliciesInfo[i].srcPods
           ELSE networkPoliciesInfo[i].targetPods
  IN [n \in DOMAIN sets \cup names |-> IF n \in names THEN MembersOf(n) ELSE sets[n]]

\* ------------------------------------------------------- garbage collection
\* A collector that finds no chain stale.
StaleChainsNone(t, prefix, active) == {}

\* The chains of the kernel table with `prefix` that are not in `active`.
StaleChains(t, prefix, active) ==
  { chain \in DOMAIN t : HasPrefix(chain, prefix) /\ chain \notin active }

StaleIPSets(sets, active) ==
  { n \in DOMAIN sets :
      /\ HasPrefix(n, kubeSourceIPSetPrefix) \/ HasPrefix(n, kubeDestinationIPSetPrefix)
      /\ n \notin active }

RECURSIVE DeleteByScan(_, _, _, _, _, _)
\* The loop over forwardChainRules (the rules listed before the loop): rule i
\* of the listing is deleted as rule number i - realRuleNo.
DeleteByScan(t, chain, listed, podFwChain, i, realRuleNo) ==
  IF i > Len(listed) THEN t
  ELSE IF RuleContains(chain, listed[i], podFwChain)
       THEN DeleteByScan(Delete(t, chain, i - realRuleNo), chain, listed, podFwChain,
                         i + 1, realRuleNo + 1)
       ELSE DeleteByScan(t, chain, listed, podFwChain, i + 1, realRuleNo)

RECURSIVE DeletePrimary(_, _, _)
DeletePrimary(t, podFwChain, k) ==
  IF k > Len(CustomChains) THEN t
  ELSE DeletePrimary(
         DeleteByScan(t, CustomChains[k], t[CustomChains[k]], podFwChain, 1, 0),
         podFwChain, k + 1)

RECURSIVE RemoveStaleReferences(_, _)
\* "remove stale iptables podFwChain references from the filter table chains"
RemoveStaleReferences(t, cleanupPodFwChains) ==
  IF cleanupPodFwChains = <<>> THEN t
  ELSE RemoveStaleReferences(DeletePrimary(t, Head(cleanupPodFwChains), 1),
                             Tail(cleanupPodFwChains))

LineMentions(line, chainName) ==
  \/ line.t = "chain" /\ line.chain = chainName
  \/ line.t = "rule" /\ RuleContains(line.chain, line.rule, chainName)

\* The text handed to utils.Restore.
desiredFilterTable(currentFilterTable, cleanupPodFwChains, cleanupPolicyChains) ==
  LET Skip(line) ==
        \/ \E n \in cleanupPodFwChains \cup cleanupPolicyChains : LineMentions(line, n)
        \/ line.t \in {"commit", "comment"}
      kept == SelectSeq(currentFilterTable, LAMBDA line : ~Skip(line))
      newChains == SelectSeq(kept, LAMBDA line : line.t = "chain")
      newRules == SelectSeq(kept, LAMBDA line : line.t = "rule")
  IN <<LineTable>> \o newChains \o newRules \o <<LineCommit>>

\* iptables-restore of the text: the table is replaced by the chains declared
\* and the rules given, -A appending and -I <chain> 1 prepending.
DeclaredChains(text) ==
  { text[i].chain : i \in { k \in 1..Len(text) : text[k].t = "chain" } }

\* iptables-restore refuses a rule of a chain the text does not declare.
RestoreOk(text) ==
  { text[i].chain : i \in { k \in 1..Len(text) : text[k].t = "rule" } }
    \subseteq (BuiltinChains \cup DeclaredChains(text))

Reverse(seq) == [i \in 1..Len(seq) |-> seq[Len(seq) + 1 - i]]

\* The rules of `chain` after the text is applied to an empty chain: the
\* inserted rules, last inserted first, then the appended rules.
RestoredRules(text, chain) ==
  LET mine == SelectSeq(text, LAMBDA line : line.t = "rule" /\ line.chain = chain)
      inserted == SelectSeq(mine, LAMBDA line : line.op = "I")
      appended == SelectSeq(mine, LAMBDA line : line.op = "A")
  IN [i \in 1..Len(inserted) |-> Reverse(inserted)[i].rule]
     \o [i \in 1..Len(appended) |-> appended[i].rule]

Restore(text) ==
  [c \in DeclaredChains(text) \cup BuiltinChains |-> RestoredRules(text, c)]

\* ------------------------------------------------------------ initial state
\* The filter table and the ipsets of a host the engine has not run on: the
\* built-in chains, with the rules, chain and set of other host actors.
ForeignRule == MkRule("-i docker0", "DOCKER", "")
HostFilter0 ==
  [c \in BuiltinChains \cup {"DOCKER"} |->
     IF c \in {"INPUT", "FORWARD"} THEN <<ForeignRule>> ELSE <<>>]
HostIPSets0 == [n \in {"other-set"} |-> {"198.51.100.1"}]

NoSync ==
  [version |-> "", networkPoliciesInfo |-> <<>>, filterTableRules |-> <<>>,
   activePolicyChains |-> {}, activePolicyIPSets |-> {}, activePodFwChains |-> {},
   cleanupPolicyIPSets |-> {}, cleanupPodFwChains |-> {}, cleanupPolicyChains |-> {},
   err |-> ""]
NoPre == [filter |-> <<>>, ipsets |-> <<>>]
NoBurst == [phase |-> "none", n |-> 0, extra |-> 0]

Init ==
  /\ pods = { p \in PodUniverse : p.name = "p1" \/ p.ip = "10.1.5.7" }
  /\ policies = {}
  /\ fullSyncRequestChan = 0
  /\ readyForUpdates = FALSE
  /\ stopCh = FALSE
  /\ mu = FALSE
  /\ consumerPc = "top"
  /\ tickerPc = "request"
  /\ calls = 0
  /\ syncPc = "idle"
  /\ syncVersion = 0
  /\ sync = NoSync
  /\ filter = HostFilter0
  /\ ipsets = HostIPSets0
  /\ pre = NoPre
  /\ steps = <<>>
  /\ burst = NoBurst
  /\ construction = Constructed

hostVars == << filter, ipsets >>
syncVars == << mu, calls, syncPc, syncVersion, sync, pre, steps >>
clusterVars == << pods, policies >>

\* ------------------------------------------------------------ request slot
Min(a, b) == IF a < b THEN a ELSE b

\* Bookkeeping of the requests issued while a sync is in flight, and of the
\* syncs started after it when no other request was issued.
BurstOnRequest ==
  IF calls > 0
  THEN IF burst.phase = "counting"
       THEN [burst EXCEPT !.n = Min(@ + 1, MaxBurst)]
       ELSE [phase |-> "counting", n |-> 1, extra |-> 0]
  ELSE NoBurst
BurstOnStart ==
  IF burst.phase = "after" THEN [burst EXCEPT !.extra = Min(@ + 1, 2)]
  ELSE [phase |-> "counting", n |-> 0, extra |-> 0]
BurstOnReturn ==
  IF burst.phase = "counting"
  THEN IF burst.n >= 1 THEN [burst EXCEPT !.phase = "after"] ELSE NoBurst
  ELSE burst

\* A send that waits for room in the channel: ch <- struct{}{} without the
\* default case.
RequestFullSyncBlocking ==
  /\ fullSyncRequestChan < ChanCap
  /\ fullSyncRequestChan' = fullSyncRequestChan + 1
  /\ burst' = BurstOnRequest

\* The same select on a channel with room for one more request.
RequestFullSyncQueued ==
  /\ fullSyncRequestChan' =
       IF fullSyncRequestChan < ChanCap + 1 THEN fullSyncRequestChan + 1
       ELSE fullSyncRequestChan
  /\ burst' = BurstOnRequest

\* RequestFullSync: select { case ch <- struct{}{}: ; default: }
RequestFullSync ==
  /\ fullSyncRequestChan' =
       IF fullSyncRequestChan < ChanCap THEN fullSyncRequestChan + 1
       ELSE fullSyncRequestChan
  /\ burst' = BurstOnRequest

\* ------------------------------------------------------------ event handlers
\* Handlers that run under npc.mu: they wait while a sync holds the mutex.
HandlerFrameUnderMutex ==
  /\ ~mu
  /\ UNCHANGED << readyForUpdates, stopCh, construction, consumerPc, tickerPc, syncVars, hostVars >>

HandlerFrame ==
  UNCHANGED << readyForUpdates, stopCh, construction, consumerPc, tickerPc, syncVars, hostVars >>

\* Handlers without the guard.
HandlerAlways == TRUE

\* The guard of the three pod handlers: if !npc.readyForUpdates { return }
HandlerEnabled == readyForUpdates

\* AddFunc of newPodEventHandler, called when the cache gains a pod.
PodAdd(p) ==
  /\ p \notin pods
  /\ \A q \in pods : ~(q.namespace = p.namespace /\ q.name = p.name)
  /\ pods' = pods \cup {p}
  /\ IF HandlerEnabled THEN RequestFullSync
     ELSE UNCHANGED << fullSyncRequestChan, burst >>
  /\ UNCHANGED policies
  /\ HandlerFrame

\* DeleteFunc of newPodEventHandler, called when the cache loses a pod.
PodDelete(p) ==
  /\ p \in pods
  /\ pods' = pods \ {p}
  /\ IF HandlerEnabled THEN RequestFullSync
     ELSE UNCHANGED << fullSyncRequestChan, burst >>
  /\ UNCHANGED policies
  /\ HandlerFrame

\* A test that looks at the pod IP alone.
UpdateIsRelevantIPOnly(oldPodObj, newPodObj) == newPodObj.ip # oldPodObj.ip

\* The test of UpdateFunc: the phase, the pod IP or the labels changed.
UpdateIsRelevant(oldPodObj, newPodObj) ==
  \/ newPodObj.phase # oldPodObj.phase
  \/ newPodObj.ip # oldPodObj.ip
  \/ newPodObj.labels # oldPodObj.labels

\* UpdateFunc of newPodEventHandler, called when a pod of the cache changes.
PodUpdate(oldPodObj, newPodObj) ==
  /\ oldPodObj \in pods
  /\ newPodObj.namespace = oldPodObj.namespace /\ newPodObj.name = oldPodObj.name
  /\ pods' = (pods \ {oldPodObj}) \cup {newPodObj}
  /\ IF HandlerEnabled /\ UpdateIsRelevant(oldPodObj, newPodObj) THEN RequestFullSync
     ELSE UNCHANGED << fullSyncRequestChan, burst >>
  /\ UNCHANGED policies
  /\ HandlerFrame

\* The handlers of NetworkPolicyEventHandler: a policy is added or deleted.
PolicyEvent(np) ==
  /\ policies' = IF np \in policies THEN policies \ {np} ELSE policies \cup {np}
  /\ IF HandlerEnabled THEN RequestFullSync
     ELSE UNCHANGED << fullSyncRequestChan, burst >>
  /\ UNCHANGED pods
  /\ HandlerFrame

\* ------------------------------------------------------------------- Run
\* The loop of Run: RequestFullSync, then select on stopCh and the ticker.
TickerRequest ==
  /\ tickerPc = "request"
  /\ RequestFullSync
  /\ tickerPc' = "select"
  /\ UNCHANGED << clusterVars, readyForUpdates, stopCh, construction, consumerPc, syncVars, hostVars >>

\* A ticker loop that waits in its select and makes no request after a tick.
TickerTickNoRequest ==
  /\ tickerPc = "select"
  /\ tickerPc' = "select"
  /\ UNCHANGED << clusterVars, fullSyncRequestChan, readyForUpdates, stopCh, construction,
                  consumerPc, syncVars, hostVars, burst >>

TickerTick ==
  /\ tickerPc = "select"
  /\ tickerPc' = "request"
  /\ UNCHANGED << clusterVars, fullSyncRequestChan, readyForUpdates, stopCh, construction, consumerPc,
                  syncVars, hostVars, burst >>

\* A ticker loop whose select takes the tick when stopCh is closed.
TickerIgnoresStop ==
  /\ tickerPc = "select"
  /\ stopCh
  /\ tickerPc' = "request"
  /\ UNCHANGED << clusterVars, fullSyncRequestChan, readyForUpdates, stopCh, construction, consumerPc,
                  syncVars, hostVars, burst >>

TickerStop ==
  /\ tickerPc = "select"
  /\ stopCh
  /\ tickerPc' = "exited"
  /\ UNCHANGED << clusterVars, fullSyncRequestChan, readyForUpdates, stopCh, construction, consumerPc,
                  syncVars, hostVars, burst >>

\* close(stopCh) by the owner of the controller.
CloseStopCh ==
  /\ ~stopCh
  /\ stopCh' = TRUE
  /\ UNCHANGED << clusterVars, fullSyncRequestChan, readyForUpdates, construction, consumerPc, tickerPc,
                  syncVars, hostVars, burst >>

\* The first, non-blocking select of the full sync goroutine.
ConsumerCheckStop ==
  /\ consumerPc = "top"
  /\ consumerPc' = IF stopCh THEN "exited" ELSE "select"
  /\ UNCHANGED << clusterVars, fullSyncRequestChan, readyForUpdates, stopCh, construction, tickerPc,
                  syncVars, hostVars, burst >>

\* The second select, case <-stopCh.
ConsumerStop ==
  /\ consumerPc = "select"
  /\ stopCh
  /\ consumerPc' = "exited"
  /\ UNCHANGED << clusterVars, fullSyncRequestChan, readyForUpdates, stopCh, construction, tickerPc,
                  syncVars, hostVars, burst >>

\* Where the goroutine would be after `go npc.fullPolicySync()`.
AfterCallAsync == "returned"

\* Where the goroutine is after it has called npc.fullPolicySync(): the call
\* is synchronous, the goroutine waits for it to return.
AfterCall == "blocked"

\* A consumer that takes the request from the channel and does not call
\* fullPolicySync.
ConsumerReceiveDrops ==
  /\ consumerPc = "select"
  /\ fullSyncRequestChan > 0
  /\ fullSyncRequestChan' = fullSyncRequestChan - 1
  /\ consumerPc' = "top"
  /\ UNCHANGED << clusterVars, readyForUpdates, stopCh, construction, tickerPc, syncVars,
                  hostVars, burst >>

\* The second select, case <-fullSyncRequest: the call of fullPolicySync.
ConsumerReceive ==
  /\ consumerPc = "select"
  /\ fullSyncRequestChan > 0
  /\ syncVersion + calls - (IF mu THEN 1 ELSE 0) < MaxSyncs
  /\ fullSyncRequestChan' = fullSyncRequestChan - 1
  /\ calls' = calls + 1
  /\ consumerPc' = AfterCall
  /\ burst' = BurstOnStart
  /\ UNCHANGED << clusterVars, readyForUpdates, stopCh, construction, tickerPc, mu, syncPc, syncVersion,
                  sync, pre, steps, hostVars >>

\* npc.readyForUpdates = true, after fullPolicySync has returned.
ConsumerSetReady ==
  /\ consumerPc = "returned"
  /\ readyForUpdates' = TRUE
  /\ consumerPc' = "top"
  /\ UNCHANGED << clusterVars, fullSyncRequestChan, stopCh, construction, tickerPc, syncVars, hostVars,
                  burst >>

\* ------------------------------------------------------------ fullPolicySync
\* Calls of fullPolicySync waiting for npc.mu.
Waiting == calls - (IF mu THEN 1 ELSE 0)

SyncFrame ==
  UNCHANGED << clusterVars, fullSyncRequestChan, readyForUpdates, stopCh, construction, consumerPc,
               tickerPc, calls, syncVersion, burst >>

\* An error return: "Aborting sync."; the deferred Unlock follows.
Abort(reason) ==
  /\ sync' = [sync EXCEPT !.err = reason]
  /\ syncPc' = "return"

\* A sync that starts with the top-level chains, the default pod firewall
\* chain left out.
SyncLockThenTopLevel ==
  /\ syncPc = "idle"
  /\ Waiting > 0
  /\ ~mu
  /\ mu' = TRUE
  /\ syncVersion' = syncVersion + 1
  /\ sync' = [NoSync EXCEPT !.version = FormatInt(syncVersion + 1)]
  /\ pre' = [filter |-> filter, ipsets |-> ipsets]
  /\ steps' = <<"heartbeat">>
  /\ syncPc' = "ensureTopLevelChains"
  /\ UNCHANGED << clusterVars, fullSyncRequestChan, readyForUpdates, stopCh, construction, consumerPc,
                  tickerPc, calls, hostVars, burst >>

\* A sync that takes the mutex and sends no heartbeat.
SyncLockSilent ==
  /\ syncPc = "idle"
  /\ Waiting > 0
  /\ ~mu
  /\ mu' = TRUE
  /\ syncVersion' = syncVersion + 1
  /\ sync' = [NoSync EXCEPT !.version = FormatInt(syncVersion + 1)]
  /\ pre' = [filter |-> filter, ipsets |-> ipsets]
  /\ steps' = <<>>
  /\ syncPc' = "ensureDefaultPodFWChains"
  /\ UNCHANGED << clusterVars, fullSyncRequestChan, readyForUpdates, stopCh, construction, consumerPc,
                  tickerPc, calls, hostVars, burst >>

\* npc.mu.Lock(); the heartbeat; syncVersion = the clock.
SyncLock ==
  /\ syncPc = "idle"
  /\ Waiting > 0
  /\ ~mu
  /\ mu' = TRUE
  /\ syncVersion' = syncVersion + 1
  /\ sync' = [NoSync EXCEPT !.version = FormatInt(syncVersion + 1)]
  /\ pre' = [filter |-> filter, ipsets |-> ipsets]
  /\ steps' = <<"heartbeat">>
  /\ syncPc' = "ensureDefaultPodFWChains"
  /\ UNCHANGED << clusterVars, fullSyncRequestChan, readyForUpdates, stopCh, construction, consumerPc,
                  tickerPc, calls, hostVars, burst >>

SyncEnsureDefaultPodFWChains ==
  /\ syncPc = "ensureDefaultPodFWChains"
  /\ filter' = ensureDefaultPodFWChains(filter)
  /\ steps' = Append(steps, "ensureDefaultPodFWChains")
  /\ syncPc' = "ensureTopLevelChains"
  /\ UNCHANGED << mu, sync, pre, ipsets >>
  /\ SyncFrame

SyncEnsureTopLevelChains ==
  /\ syncPc = "ensureTopLevelChains"
  /\ filter' = ensureTopLevelChains(filter)
  /\ steps' = Append(steps, "ensureTopLevelChains")
  /\ syncPc' = "ensureDefaultNetworkPolicyChains"
  /\ UNCHANGED << mu, sync, pre, ipsets >>
  /\ SyncFrame

SyncEnsureDefaultNetworkPolicyChains ==
  /\ syncPc = "ensureDefaultNetworkPolicyChains"
  /\ filter' = ensureDefaultNetworkPolicyChains(filter)
  /\ steps' = Append(steps, "ensureDefaultNetworkPolicyChains")
  /\ syncPc' = "buildNetworkPoliciesInfo"
  /\ UNCHANGED << mu, sync, pre, ipsets >>
  /\ SyncFrame

\* A build whose error is recorded and the sync carried on with no policy.
SyncBuildContinues ==
  /\ syncPc = "buildNetworkPoliciesInfo"
  /\ steps' = Append(steps, "buildNetworkPoliciesInfo")
  /\ \/ sync' = [sync EXCEPT !.networkPoliciesInfo = buildNetworkPoliciesInfo(pods, policies)]
     \/ sync' = [sync EXCEPT !.err = "build"]
  /\ syncPc' = "SaveInto"
  /\ UNCHANGED << mu, pre, hostVars >>
  /\ SyncFrame

\* networkPoliciesInfo, err = npc.buildNetworkPoliciesInfo()
SyncBuild ==
  /\ syncPc = "buildNetworkPoliciesInfo"
  /\ steps' = Append(steps, "buildNetworkPoliciesInfo")
  /\ \/ /\ sync' = [sync EXCEPT !.networkPoliciesInfo = buildNetworkPoliciesInfo(pods, policies)]
        /\ syncPc' = "SaveInto"
     \/ Abort("build")
  /\ UNCHANGED << mu, pre, hostVars >>
  /\ SyncFrame

\* utils.SaveInto("filter", &filterTableRules)
SyncSaveInto ==
  /\ syncPc = "SaveInto"
  /\ steps' = Append(steps, "SaveInto")
  /\ \/ /\ sync' = [sync EXCEPT !.filterTableRules = SaveInto(filter)]
        /\ syncPc' = "fullSyncNetworkPolicyChains"
     \/ Abort("save")
  /\ UNCHANGED << mu, pre, hostVars >>
  /\ SyncFrame

SyncNetworkPolicyChains ==
  /\ syncPc = "fullSyncNetworkPolicyChains"
  /\ steps' = Append(steps, "fullSyncNetworkPolicyChains")
  /\ \/ /\ sync' = [sync EXCEPT
                      !.filterTableRules =
                        fullSyncNetworkPolicyChains(@, sync.networkPoliciesInfo, sync.version),
                      !.activePolicyChains =
                        activePolicyChainsOf(sync.networkPoliciesInfo, sync.version),
                      !.activePolicyIPSets = activePolicyIPSetsOf(sync.networkPoliciesInfo)]
        /\ ipsets' = RefreshPolicyIPSets(ipsets, sync.networkPoliciesInfo)
        /\ syncPc' = "fullSyncPodFirewallChains"
     \/ /\ Abort("policy")
        /\ UNCHANGED ipsets
  /\ UNCHANGED << mu, pre, filter >>
  /\ SyncFrame

SyncPodFirewallChains ==
  /\ syncPc = "fullSyncPodFirewallChains"
  /\ steps' = Append(steps, "fullSyncPodFirewallChains")
  /\ \E localPods \in getLocalPods(pods, nodeIP) :
       \E allLocalPods \in Orders(localPods) :
         sync' = [sync EXCEPT
                    !.filterTableRules =
                      fullSyncPodFirewallChains(@, allLocalPods, sync.networkPoliciesInfo,
                                                sync.version),
                    !.activePodFwChains = activePodFwChainsOf(allLocalPods, sync.version)]
  /\ syncPc' = "cleanupStaleRules"
  /\ UNCHANGED << mu, pre, hostVars >>
  /\ SyncFrame

\* An active set taken as it was passed in.
ActiveAsPassed(active) == active

\* activePolicyChains[kubeIngressNetpolChain] = true, and the same for the
\* egress chain.
ActivePolicyChainsWithDefaults(activePolicyChains) ==
  activePolicyChains \cup {kubeIngressNetpolChain, kubeEgressNetpolChain}

\* activePodFwChains[KubeDefaultPodFWChain] = true
ActivePodFwChainsWithDefault(activePodFwChains) ==
  activePodFwChains \cup {KubeDefaultPodFWChain}

\* cleanupStaleRules up to "HERE2": the default chains are made active, the
\* stale chains and sets are found, and the jumps to the stale pod firewall
\* chains are deleted from the three custom chains of the kernel table.
SyncCleanupReferences ==
  /\ syncPc = "cleanupStaleRules"
  /\ steps' = Append(steps, "cleanupStaleRules")
  /\ \/ LET activePolicyChains == ActivePolicyChainsWithDefaults(sync.activePolicyChains)
            activePodFwChains == ActivePodFwChainsWithDefault(sync.activePodFwChains)
            cleanupPolicyChains ==
              StaleChains(filter, kubeNetworkPolicyChainPrefix, activePolicyChains)
            cleanupPodFwChains ==
              StaleChains(filter, kubePodFirewallChainPrefix, activePodFwChains)
        IN /\ sync' = [sync EXCEPT
                         !.activePolicyChains = activePolicyChains,
                         !.activePodFwChains = activePodFwChains,
                         !.cleanupPolicyChains = cleanupPolicyChains,
                         !.cleanupPodFwChains = cleanupPodFwChains,
                         !.cleanupPolicyIPSets = StaleIPSets(ipsets, sync.activePolicyIPSets)]
           /\ filter' = RemoveStaleReferences(filter, SetToSeq(cleanupPodFwChains))
           /\ syncPc' = "Restore"
     \/ /\ Abort("list")
        /\ UNCHANGED filter
  /\ UNCHANGED << mu, pre, ipsets >>
  /\ SyncFrame

\* A restore whose failure is recorded and the clean-up carried on.
SyncRestoreContinues ==
  /\ syncPc = "Restore"
  /\ steps' = Append(steps, "Restore")
  /\ LET text == desiredFilterTable(sync.filterTableRules, sync.cleanupPodFwChains,
                                    sync.cleanupPolicyChains)
     IN \/ /\ RestoreOk(text)
           /\ filter' = Restore(text)
           /\ UNCHANGED sync
        \/ /\ sync' = [sync EXCEPT !.err = "restore"]
           /\ UNCHANGED filter
  /\ syncPc' = "Destroy"
  /\ UNCHANGED << mu, pre, ipsets >>
  /\ SyncFrame

\* utils.Restore("filter", desiredFilterTable.Bytes())
SyncRestore ==
  /\ syncPc = "Restore"
  /\ steps' = Append(steps, "Restore")
  /\ LET text == desiredFilterTable(sync.filterTableRules, sync.cleanupPodFwChains,
                                    sync.cleanupPolicyChains)
     IN \/ /\ RestoreOk(text)
           /\ filter' = Restore(text)
           /\ syncPc' = "Destroy"
           /\ UNCHANGED sync
        \/ /\ Abort("restore")
           /\ UNCHANGED filter
  /\ UNCHANGED << mu, pre, ipsets >>
  /\ SyncFrame

\* "cleanup network policy ipsets": set.Destroy() for each stale set, the
\* first failure ends the loop.
SyncDestroy ==
  /\ syncPc = "Destroy"
  /\ steps' = Append(steps, "Destroy")
  /\ \E destroyed \in SUBSET sync.cleanupPolicyIPSets :
       /\ ipsets' = [n \in DOMAIN ipsets \ destroyed |-> ipsets[n]]
       /\ sync' = [sync EXCEPT !.err =
                     IF destroyed = sync.cleanupPolicyIPSets THEN "" ELSE "destroy"]
  /\ syncPc' = "return"
  /\ UNCHANGED << mu, pre, filter >>
  /\ SyncFrame

\* The deferred npc.mu.Unlock() and the return to the caller.
SyncReturn ==
  /\ syncPc = "return"
  /\ mu' = FALSE
  /\ calls' = calls - 1
  /\ syncPc' = "idle"
  /\ sync' = NoSync
  /\ pre' = NoPre
  /\ steps' = <<>>
  /\ consumerPc' = IF consumerPc = "blocked" THEN "returned" ELSE consumerPc
  /\ burst' = BurstOnReturn
  /\ UNCHANGED << clusterVars, fullSyncRequestChan, readyForUpdates, stopCh, construction, tickerPc,
                  syncVersion, hostVars >>

\* ------------------------------------------------------------ specification
\* Spec: the host under pod and policy churn.  The cache gains and loses the
\* local pod p1 and the policy np1 at any moment; Run makes its start-up
\* request, and no tick and no shutdown falls into the run.
ChurnPods == { p \in PodUniverse : p.name = "p1" }

Next ==
  \/ \E p \in ChurnPods : PodAdd(p)
  \/ \E p \in ChurnPods : PodDelete(p)
  \/ \E np \in PolicyUniverse : PolicyEvent(np)
  \/ TickerRequest
  \/ ConsumerCheckStop
  \/ ConsumerReceive
  \/ ConsumerSetReady
  \/ SyncLock
  \/ SyncEnsureDefaultPodFWChains
  \/ SyncEnsureTopLevelChains
  \/ SyncEnsureDefaultNetworkPolicyChains
  \/ SyncBuild
  \/ SyncSaveInto
  \/ SyncNetworkPolicyChains
  \/ SyncPodFirewallChains
  \/ SyncCleanupReferences
  \/ SyncRestore
  \/ SyncDestroy
  \/ SyncReturn

Spec == Init /\ [][Next]_vars

\* LoopSpec: the request loop under every interleaving of the ticker, the
\* shutdown, the pod handlers and the consumer.  The events are those of the
\* remote pod r1 (deleted, added, its IP changed or another field changed).
RemotePods == { p \in PodUniverse : p.name = "r1" }
PodUpdates ==
  { pair \in RemotePods \X RemotePods :
      pair[1].namespace = pair[2].namespace /\ pair[1].name = pair[2].name }

LoopNext ==
  \/ \E p \in RemotePods : PodAdd(p)
  \/ \E p \in RemotePods : PodDelete(p)
  \/ \E pair \in PodUpdates : PodUpdate(pair[1], pair[2])
  \/ TickerRequest
  \/ TickerTick
  \/ TickerStop
  \/ CloseStopCh
  \/ ConsumerCheckStop
  \/ ConsumerStop
  \/ ConsumerReceive
  \/ ConsumerSetReady
  \/ SyncLock
  \/ SyncEnsureDefaultPodFWChains
  \/ SyncEnsureTopLevelChains
  \/ SyncEnsureDefaultNetworkPolicyChains
  \/ SyncBuild
  \/ SyncSaveInto
  \/ SyncNetworkPolicyChains
  \/ SyncPodFirewallChains
  \/ SyncCleanupReferences
  \/ SyncRestore
  \/ SyncDestroy
  \/ SyncReturn

LoopSpec == Init /\ [][LoopNext]_vars

\* FairLoopSpec: LoopSpec with the progress the runtime gives.  The consumer
\* goroutine and the fullPolicySync it calls are one thread of control, which
\* the Go scheduler runs whenever it can take a step; a phase that runs host
\* commands (iptables, iptables-save, iptables-restore) is left when the
\* commands return.
ConsumerStep ==
  \/ ConsumerCheckStop
  \/ ConsumerReceive
  \/ ConsumerSetReady
  \/ SyncLock
  \/ SyncEnsureDefaultPodFWChains
  \/ SyncEnsureDefaultNetworkPolicyChains
  \/ SyncBuild
  \/ SyncNetworkPolicyChains
  \/ SyncPodFirewallChains
  \/ SyncDestroy
  \/ SyncReturn

HostCommandPhases ==
  {"ensureTopLevelChains", "SaveInto", "cleanupStaleRules", "Restore"}

FairLoopSpec ==
  LoopSpec /\ WF_vars(ConsumerStep) /\ []<>(syncPc \notin HostCommandPhases)

\* StopFairSpec: FairLoopSpec with the progress of the two selects on stopCh.
\* A select takes one of its ready cases at random: the consumer blocked in
\* its second select with stopCh closed takes that case unless it takes a
\* request first, and the ticker loop, which finds stopCh ready at every
\* select and the tick ready once in a sync period, takes stopCh at some
\* select; its call of RequestFullSync does not block.
StopFairSpec ==
  FairLoopSpec /\ WF_vars(ConsumerStop) /\ WF_vars(TickerRequest) /\ SF_vars(TickerStop)

\* TickFairSpec: StopFairSpec with a ticker that fires: t.C delivers a tick
\* every syncPeriod, so the select of the ticker loop does not wait forever.
TickFairSpec == StopFairSpec /\ WF_vars(TickerTick)

\* HostSpec: the host shared with another actor.  The kernel filter table is
\* a resource of the whole host: at any moment, during a sync as well, another
\* actor inserts a rule of its own at the head of a built-in chain or of its
\* own chain (iptables -I <chain> 1 ..., unless the chain has the rule).  The
\* cluster is as it starts; the ticker requests the syncs.
OtherActorRule == MkRule("-p tcp --dport 22", "ACCEPT", "")
OtherActorChains == {"INPUT", "FORWARD", "DOCKER"}

OtherActorInsert(chain) ==
  /\ chain \in DOMAIN filter
  /\ ~Exists(filter, chain, OtherActorRule)
  /\ filter' = Insert(filter, chain, 1, OtherActorRule)
  /\ UNCHANGED << clusterVars, fullSyncRequestChan, readyForUpdates, stopCh, construction, consumerPc,
                  tickerPc, syncVars, ipsets, burst >>

HostNext ==
  \/ \E chain \in OtherActorChains : OtherActorInsert(chain)
  \/ TickerRequest
  \/ TickerTick
  \/ ConsumerCheckStop
  \/ ConsumerReceive
  \/ ConsumerSetReady
  \/ SyncLock
  \/ SyncEnsureDefaultPodFWChains
  \/ SyncEnsureTopLevelChains
  \/ SyncEnsureDefaultNetworkPolicyChains
  \/ SyncBuild
  \/ SyncSaveInto
  \/ SyncNetworkPolicyChains
  \/ SyncPodFirewallChains
  \/ SyncCleanupReferences
  \/ SyncRestore
  \/ SyncDestroy
  \/ SyncReturn

HostSpec == Init /\ [][HostNext]_vars

\* SteadySpec: full syncs of a cluster whose local pods and policies stay as
\* they start.  The cluster is drawn from the clusters below: one local pod,
\* two local pods, or two local pods of different namespaces whose namespace
\* and name give the same string when written one after the other; with the
\* policy np1 or with no policy.  The remote pod r1 changes its IP at any
\* moment; the ticker and the handler of r1 request the syncs.
PodOfOtherNamespace ==
  [namespace |-> "ap", name |-> "1", ip |-> "10.1.2.7", hostIP |-> "n1", hostNetwork |-> FALSE,
     phase |-> "Running", labels |-> {}]

SteadyClusters ==
  LET base == { p \in PodUniverse : p.name = "p1" \/ p.ip = "10.1.5.7" }
  IN { base,
       base \cup { p \in PodUniverse : p.name = "p2" },
       base \cup { PodOfOtherNamespace } }

SteadyInit ==
  /\ pods \in SteadyClusters
  /\ policies \in {{}, PolicyUniverse}
  /\ fullSyncRequestChan = 0
  /\ readyForUpdates = FALSE
  /\ stopCh = FALSE
  /\ mu = FALSE
  /\ consumerPc = "top"
  /\ tickerPc = "request"
  /\ calls = 0
  /\ syncPc = "idle"
  /\ syncVersion = 0
  /\ sync = NoSync
  /\ filter = HostFilter0
  /\ ipsets = HostIPSets0
  /\ pre = NoPre
  /\ steps = <<>>
  /\ burst = NoBurst
  /\ construction = Constructed

SteadyNext ==
  \/ \E pair \in PodUpdates : PodUpdate(pair[1], pair[2])
  \/ TickerRequest
  \/ TickerTick
  \/ ConsumerCheckStop
  \/ ConsumerReceive
  \/ ConsumerSetReady
  \/ SyncLock
  \/ SyncEnsureDefaultPodFWChains
  \/ SyncEnsureTopLevelChains
  \/ SyncEnsureDefaultNetworkPolicyChains
  \/ SyncBuild
  \/ SyncSaveInto
  \/ SyncNetworkPolicyChains
  \/ SyncPodFirewallChains
  \/ SyncCleanupReferences
  \/ SyncRestore
  \/ SyncDestroy
  \/ SyncReturn

SteadySpec == SteadyInit /\ [][SteadyNext]_vars

\* CleanupSpec: the controller runs its syncs on a cluster of SteadyClusters,
\* is stopped, and Cleanup is called when its loops have exited.
RECURSIVE DeleteByListIndex(_, _, _, _, _)
\* A loop that deletes rule i of the listing as rule number i, whatever it
\* has deleted before.
DeleteByListIndex(t, chain, listed, i, realRuleNo) ==
  IF i > Len(listed) THEN t
  ELSE IF \/ HasPrefix(listed[i].j, kubePodFirewallChainPrefix)
          \/ HasPrefix(listed[i].c, kubePodFirewallChainPrefix)
       THEN DeleteByListIndex(Delete(t, chain, i), chain, listed, i + 1, realRuleNo + 1)
       ELSE DeleteByListIndex(t, chain, listed, i + 1, realRuleNo)

RECURSIVE DeleteByPrefixScan(_, _, _, _, _)
\* The loops over forwardChainRules of Cleanup: rule i of the listing is
\* deleted as rule number i - realRuleNo when it contains the prefix of the
\* pod firewall chains (as its target or in its comment).
DeleteByPrefixScan(t, chain, listed, i, realRuleNo) ==
  IF i > Len(listed) THEN t
  ELSE IF \/ HasPrefix(listed[i].j, kubePodFirewallChainPrefix)
          \/ HasPrefix(listed[i].c, kubePodFirewallChainPrefix)
       THEN DeleteByPrefixScan(Delete(t, chain, i - realRuleNo), chain, listed,
                               i + 1, realRuleNo + 1)
       ELSE DeleteByPrefixScan(t, chain, listed, i + 1, realRuleNo)

RECURSIVE ClearAndDeleteChains(_, _)
\* ClearChain and DeleteChain for each listed chain; the first failure ends
\* Cleanup.  iptables -X refuses a chain that a rule of the table jumps to.
ClearAndDeleteChains(t, chains) ==
  IF chains = <<>> THEN [t |-> t, ok |-> TRUE]
  ELSE LET chain == Head(chains)
           cleared == [t EXCEPT ![chain] = <<>>]
       IN IF \E c \in DOMAIN cleared : \E k \in 1..Len(cleared[c]) : cleared[c][k].j = chain
          THEN [t |-> cleared, ok |-> FALSE]
          ELSE ClearAndDeleteChains([c \in DOMAIN cleared \ {chain} |-> cleared[c]],
                                    Tail(chains))

\* The orders in which ListChains may give the chains of S.
ListOrders(S) ==
  { order \in [1..Cardinality(S) -> S] :
      \A k, l \in 1..Cardinality(S) : order[k] = order[l] => k = l }

\* ipset.Save() and ipset.DestroyAllWithin(): the sets of the engine are
\* destroyed.
DestroyAllWithin(sets) ==
  [n \in { x \in DOMAIN sets :
             ~(HasPrefix(x, kubeSourceIPSetPrefix) \/ HasPrefix(x, kubeDestinationIPSetPrefix)) }
     |-> sets[n]]

\* The filter table and the ipsets Cleanup leaves, for the orders in which the
\* two calls of ListChains give the chains.
CleanupResult(t, sets, podFwOrder, policyOrder) ==
  IF kubeForwardChainName \notin DOMAIN t THEN [t |-> t, sets |-> sets]
  ELSE LET t1 == DeleteByPrefixScan(t, kubeForwardChainName, t[kubeForwardChainName], 1, 0)
       IN IF kubeOutputChainName \notin DOMAIN t1 THEN [t |-> t1, sets |-> sets]
          ELSE LET t2 == DeleteByPrefixScan(t1, kubeOutputChainName,
                                            t1[kubeOutputChainName], 1, 0)
                   r3 == ClearAndDeleteChains(t2, podFwOrder)
                   r4 == IF r3.ok THEN ClearAndDeleteChains(r3.t, policyOrder) ELSE r3
               IN [t |-> r4.t, sets |-> IF r4.ok THEN DestroyAllWithin(sets) ELSE sets]

\* Cleanup(), called when the loops of Run have exited.
Cleanup ==
  /\ consumerPc = "exited" /\ tickerPc = "exited" /\ ~mu
  /\ \E podFwOrder \in ListOrders(StaleChains(filter, kubePodFirewallChainPrefix, {})) :
       \E policyOrder \in ListOrders(StaleChains(filter, kubeNetworkPolicyChainPrefix, {})) :
         LET r == CleanupResult(filter, ipsets, podFwOrder, policyOrder)
         IN /\ filter' = r.t
            /\ ipsets' = r.sets
  /\ UNCHANGED << clusterVars, fullSyncRequestChan, readyForUpdates, stopCh, construction, consumerPc,
                  tickerPc, syncVars, burst >>

CleanupNext ==
  \/ TickerRequest
  \/ TickerTick
  \/ TickerStop
  \/ CloseStopCh
  \/ ConsumerCheckStop
  \/ ConsumerStop
  \/ ConsumerReceive
  \/ ConsumerSetReady
  \/ SyncLock
  \/ SyncEnsureDefaultPodFWChains
  \/ SyncEnsureTopLevelChains
  \/ SyncEnsureDefaultNetworkPolicyChains
  \/ SyncBuild
  \/ SyncSaveInto
  \/ SyncNetworkPolicyChains
  \/ SyncPodFirewallChains
  \/ SyncCleanupReferences
  \/ SyncRestore
  \/ SyncDestroy
  \/ SyncReturn
  \/ Cleanup

CleanupSpec == SteadyInit /\ [][CleanupNext]_vars

\* LocalPodsSpec: full syncs of a cluster with pods of the node that
\* getLocalPods skips (a pod in the host network, a pod that has no IP yet)
\* or with two pods of the node that report one IP (the pod p1 and a pod
\* that has terminated and whose IP p1 was given).
LocalPodsClusters ==
  LET base == { p \in PodUniverse : p.name = "p1" \/ p.ip = "10.1.5.7" }
  IN { base \cup { [namespace |-> "a", name |-> "h1", ip |-> "n1", hostIP |-> "n1",
                    hostNetwork |-> TRUE,
     phase |-> "Running", labels |-> {}],
                   [namespace |-> "a", name |-> "e1", ip |-> "", hostIP |-> "n1",
                    hostNetwork |-> FALSE,
     phase |-> "Running", labels |-> {}] },
       base \cup { [namespace |-> "a", name |-> "p3", ip |-> "10.1.2.5", hostIP |-> "n1",
                    hostNetwork |-> FALSE,
     phase |-> "Running", labels |-> {}] } }

LocalPodsInit ==
  /\ pods \in LocalPodsClusters
  /\ policies \in {{}, PolicyUniverse}
  /\ fullSyncRequestChan = 0
  /\ readyForUpdates = FALSE
  /\ stopCh = FALSE
  /\ mu = FALSE
  /\ consumerPc = "top"
  /\ tickerPc = "request"
  /\ calls = 0
  /\ syncPc = "idle"
  /\ syncVersion = 0
  /\ sync = NoSync
  /\ filter = HostFilter0
  /\ ipsets = HostIPSets0
  /\ pre = NoPre
  /\ steps = <<>>
  /\ burst = NoBurst
  /\ construction = Constructed

LocalPodsSpec == LocalPodsInit /\ [][SteadyNext]_vars

\* UpdateSpec: the update events of the remote pod r1.  The pod is as it
\* starts or differs from that in one field: its IP, its phase, its labels or
\* its host IP; an update event hands over any two of these as the old and the
\* new pod (the same pod twice is the update of a resync).  Run makes its
\* start-up request, and no tick and no shutdown falls into the run.
UpdatedPods ==
  LET r1 == CHOOSE p \in PodUniverse : p.name = "r1" /\ p.ip = "10.1.5.7"
  IN { r1,
       [r1 EXCEPT !.ip = "10.1.5.8"],
       [r1 EXCEPT !.phase = "Succeeded"],
       [r1 EXCEPT !.labels = {"app=web"}],
       [r1 EXCEPT !.hostIP = "n3"] }

UpdateNext ==
  \/ \E oldPodObj \in UpdatedPods : \E newPodObj \in UpdatedPods :
       PodUpdate(oldPodObj, newPodObj)
  \/ TickerRequest
  \/ ConsumerCheckStop
  \/ ConsumerReceive
  \/ ConsumerSetReady
  \/ SyncLock
  \/ SyncEnsureDefaultPodFWChains
  \/ SyncEnsureTopLevelChains
  \/ SyncEnsureDefaultNetworkPolicyChains
  \/ SyncBuild
  \/ SyncSaveInto
  \/ SyncNetworkPolicyChains
  \/ SyncPodFirewallChains
  \/ SyncCleanupReferences
  \/ SyncRestore
  \/ SyncDestroy
  \/ SyncReturn

UpdateSpec == Init /\ [][UpdateNext]_vars

\* ConstructSpec: NewNetworkPolicyController is called with a node port range
\* written with the texts above (the other parameters are valid) and returns.
ConstructInit ==
  /\ construction \in { Config(first, separator, second) :
                          first \in PortTexts, separator \in SeparatorTexts,
                          second \in PortTexts }
  /\ pods = {}
  /\ policies = {}
  /\ fullSyncRequestChan = 0
  /\ readyForUpdates = FALSE
  /\ stopCh = FALSE
  /\ mu = FALSE
  /\ consumerPc = "top"
  /\ tickerPc = "request"
  /\ calls = 0
  /\ syncPc = "idle"
  /\ syncVersion = 0
  /\ sync = NoSync
  /\ filter = HostFilter0
  /\ ipsets = HostIPSets0
  /\ pre = NoPre
  /\ steps = <<>>
  /\ burst = NoBurst

\* NewNetworkPolicyController returns: an error and no controller, or the
\* controller with its serviceNodePortRange.
NewNetworkPolicyController ==
  /\ ~construction.returned
  /\ LET result == ParseNodePortRange(construction.NodePortRange)
     IN construction' = [construction EXCEPT
                           !.returned = TRUE,
                           !.err = result.err,
                           !.controller = (result.err = ""),
                           !.serviceNodePortRange = result.serviceNodePortRange]
  /\ UNCHANGED << clusterVars, fullSyncRequestChan, readyForUpdates, stopCh, consumerPc,
                  tickerPc, syncVars, hostVars, burst >>

ConstructSpec == ConstructInit /\ [][NewNetworkPolicyController]_vars

\* EnsureSpec: the closure ensureRuleAtPosition is called, once and then once
\* more with the same arguments, for the rule RuleMarkAccept on a chain of any
\* contents up to MaxChainLen rules and a position up to MaxPosition.  The
\* chain holds the rule at most once; the other rules are those of other
\* actors and of the engine.
MaxChainLen == 3
MaxPosition == 4

RECURSIVE ChainsUpTo(_)
ChainsUpTo(n) ==
  IF n = 0 THEN {<<>>}
  ELSE LET shorter == ChainsUpTo(n - 1)
       IN shorter \cup
            { Append(rules, rule) :
                rules \in { r \in shorter : Len(r) = n - 1 },
                rule \in {RuleMarkAccept, RuleDefaultPodFW, ForeignRule} }

EnsureChains ==
  { rules \in ChainsUpTo(MaxChainLen) :
      Cardinality({ k \in 1..Len(rules) : rules[k] = RuleMarkAccept }) <= 1 }

EnsureInit ==
  /\ filter \in { [c \in {kubeForwardChainName} |-> rules] : rules \in EnsureChains }
  /\ steps = <<>>
  /\ pods = {}
  /\ policies = {}
  /\ fullSyncRequestChan = 0
  /\ readyForUpdates = FALSE
  /\ stopCh = FALSE
  /\ mu = FALSE
  /\ consumerPc = "top"
  /\ tickerPc = "request"
  /\ calls = 0
  /\ syncPc = "idle"
  /\ syncVersion = 0
  /\ sync = NoSync
  /\ ipsets = HostIPSets0
  /\ pre = NoPre
  /\ burst = NoBurst
  /\ construction = Constructed

\* One call of the closure; steps keeps the position and the chain as it was
\* before the call.
EnsureRuleAtPositionCall ==
  \E position \in 1..MaxPosition :
    /\ Len(steps) < 2
    /\ steps # <<>> => steps[1].position = position
    /\ filter' = ensureRuleAtPosition(filter, kubeForwardChainName, RuleMarkAccept, position)
    /\ steps' = Append(steps, [position |-> position, before |-> filter[kubeForwardChainName]])
    /\ UNCHANGED << clusterVars, fullSyncRequestChan, readyForUpdates, stopCh, construction,
                    consumerPc, tickerPc, mu, calls, syncPc, syncVersion, sync, ipsets, pre,
                    burst >>

EnsureSpec == EnsureInit /\ [][EnsureRuleAtPositionCall]_vars

\* ------------------------------------------------------- the request loop
\* C1: under every interleaving of the ticker, the handlers and the consumer,
\* at most one execution of fullPolicySync is in progress: at most one call
\* has not returned, and the phases of a sync run only under npc.mu.
C1_OneSyncInProgress ==
  /\ calls <= 1
  /\ Waiting >= 0
  /\ syncPc # "idle" <=> mu
  /\ mu => calls = 1 /\ consumerPc = "blocked"

\* A sync holds the mutex while the next request is already in the slot.
C1_Witness ==
  mu /\ syncPc = "Restore" /\ fullSyncRequestChan = ChanCap /\ tickerPc = "request"

\* C2: RequestFullSync never blocks: whatever the slot holds and wherever the
\* consumer is, each caller that has reached its call can take the step.
C2_RequestNeverBlocks ==
  /\ tickerPc = "request" => ENABLED TickerRequest
  /\ \A p \in RemotePods : p \in pods => ENABLED PodDelete(p)
  /\ \A p \in RemotePods :
       (\A q \in pods : q.name # p.name) => ENABLED PodAdd(p)
  /\ \A pair \in PodUpdates : pair[1] \in pods => ENABLED PodUpdate(pair[1], pair[2])

\* Two requests were issued during a sync that still holds the mutex: one is
\* in the slot, one was dropped, and the ticker has gone on to its select.
C2_Witness ==
  /\ mu /\ burst.phase = "counting" /\ burst.n = 2
  /\ fullSyncRequestChan = ChanCap /\ tickerPc = "select" /\ readyForUpdates

\* A step of a caller of RequestFullSync: the ticker leaving its call, or a
\* pod event delivered to a handler.
RequestStep ==
  \/ tickerPc = "request" /\ tickerPc' = "select"
  \/ pods' # pods

\* C3: the slot never holds more than one request, and a request made while
\* the slot is occupied is dropped: the slot, the flag, the consumer, the
\* running sync and the host are as they were.
C3_SlotCoalesces ==
  /\ [](fullSyncRequestChan <= ChanCap)
  /\ [][(fullSyncRequestChan = ChanCap /\ RequestStep)
          => UNCHANGED << fullSyncRequestChan, readyForUpdates, stopCh, construction, consumerPc,
                          syncVars, hostVars >>]_vars

\* MaxBurst requests were issued during one sync and the slot holds one.
C3_Witness ==
  /\ burst.phase = "counting" /\ burst.n = MaxBurst /\ calls = 1
  /\ fullSyncRequestChan = ChanCap

\* C4: after a burst of requests issued during a sync and no request since,
\* exactly one more sync is started: it is pending in the slot or it is the
\* one sync started since the burst, and it is started unless the controller
\* is stopped (or the run has used its MaxSyncs syncs).
C4_BurstOneMoreSync ==
  /\ [](burst.phase = "after" => burst.extra + fullSyncRequestChan = 1)
  /\ (burst.phase = "after" /\ burst.extra = 0)
       ~> (burst.phase # "after" \/ burst.extra = 1 \/ stopCh
           \/ syncVersion >= MaxSyncs)

\* The sync after a burst of at least two requests has run and returned, and
\* nothing is pending.
C4_Witness ==
  /\ burst.phase = "after" /\ burst.n >= 2 /\ burst.extra = 1
  /\ calls = 0 /\ fullSyncRequestChan = 0 /\ consumerPc = "select"

\* The first call of fullPolicySync has returned.
FirstSyncReturned == syncVersion >= 2 \/ (syncVersion = 1 /\ ~mu)

\* C5: until the first fullPolicySync has returned, a pod event (Add, Update
\* or Delete) changes the cache only: no request is put in the slot and the
\* controller and the host are as they were.
C5_NoEffectBeforeFirstSync ==
  [][(~FirstSyncReturned /\ pods' # pods)
       => UNCHANGED << fullSyncRequestChan, readyForUpdates, stopCh, construction, consumerPc,
                       tickerPc, syncVars, hostVars, burst >>]_vars

\* Pod events were delivered while the first sync runs: the cache has lost
\* the pod r1 and the slot, emptied by the consumer, is still empty.
C5_Witness ==
  /\ mu /\ syncVersion = 1 /\ fullSyncRequestChan = 0 /\ tickerPc = "select"
  /\ \A p \in pods : p.name # "r1"

\* ------------------------------------------------------- the phases of a sync
\* The phases of fullPolicySync in the order of its statements.
SyncOrder ==
  << "heartbeat", "ensureDefaultPodFWChains", "ensureTopLevelChains",
     "ensureDefaultNetworkPolicyChains", "buildNetworkPoliciesInfo", "SaveInto",
     "fullSyncNetworkPolicyChains", "fullSyncPodFirewallChains", "cleanupStaleRules",
     "Restore", "Destroy" >>

IsPrefix(s, t) == Len(s) <= Len(t) /\ SubSeq(t, 1, Len(s)) = s

\* C6 (as the code has it): the phases of a sync run in the order of
\* SyncOrder: the default pod firewall chain, the top-level chains, the default
\* policy chains, the build, the dump, the policy chains and the pod firewall
\* chains composed, then the collection of stale chains and the deletion of
\* jumps to stale pod chains, then the restore, then the stale sets destroyed.
C6_OrderOfPhases == IsPrefix(steps, SyncOrder)

\* A sync has run every phase.
C6_Witness == syncPc = "return" /\ steps = SyncOrder /\ sync.err = ""

\* The place of a phase in the order the specification gives: top-level
\* chains, default chains, build, dump, compose and restore, collection.
ClaimedRank(step) ==
  CASE step = "heartbeat" -> 0
    [] step = "ensureTopLevelChains" -> 1
    [] step \in {"ensureDefaultPodFWChains", "ensureDefaultNetworkPolicyChains"} -> 2
    [] step = "buildNetworkPoliciesInfo" -> 3
    [] step = "SaveInto" -> 4
    [] step \in {"fullSyncNetworkPolicyChains", "fullSyncPodFirewallChains", "Restore"} -> 5
    [] step \in {"cleanupStaleRules", "Destroy"} -> 6

\* C6 as stated: top-level chains first, then the default chains, the build,
\* the dump, compose and restore, then garbage collection; no step of a later
\* phase before a step of an earlier one.
C6_ClaimedOrder ==
  \A i, j \in 1..Len(steps) : i < j => ClaimedRank(steps[i]) <= ClaimedRank(steps[j])

\* ------------------------------------------------------------- failed syncs
\* C7 as stated: after a sync whose restore failed the kernel filter table is
\* the table the sync started with.
C7_RestoreFailureKeepsTable ==
  (syncPc = "return" /\ sync.err = "restore") => filter = pre.filter

\* The table after the three installer steps a sync starts with.
EnsuredTable(t) ==
  ensureDefaultNetworkPolicyChains(ensureTopLevelChains(ensureDefaultPodFWChains(t)))

DefaultChains == {KubeDefaultPodFWChain, kubeIngressNetpolChain, kubeEgressNetpolChain}

FixedChains == DefaultChains \cup {kubeInputChainName, kubeForwardChainName, kubeOutputChainName}

EnginePrefixedChains(t) ==
  { c \in DOMAIN t :
      HasPrefix(c, kubePodFirewallChainPrefix) \/ HasPrefix(c, kubeNetworkPolicyChainPrefix) }

EnginePrefixedSets(sets) ==
  { n \in DOMAIN sets :
      HasPrefix(n, kubeSourceIPSetPrefix) \/ HasPrefix(n, kubeDestinationIPSetPrefix) }

\* The jumps to per-pod chains in the custom chains of table t.
PodJumps(t) ==
  UNION { { << c, t[c][k] >> :
              k \in { x \in 1..Len(t[c]) :
                        /\ HasPrefix(t[c][x].j, kubePodFirewallChainPrefix)
                        /\ t[c][x].j # KubeDefaultPodFWChain } } :
          c \in { CustomChains[i] : i \in 1..Len(CustomChains) } \cap DOMAIN t }

\* C8 (as the code has it): when the build fails the sync ends there.  The
\* ipsets are those the sync started with; the filter table is the table the
\* sync started with after the three installer steps, which create the fixed
\* chains and put the installer's rules at their positions: every per-pod and
\* per-policy chain and every jump to a per-pod chain is as it was.  Nothing of
\* the sync is kept for the next one.
C8_BuildFailureEffects ==
  /\ sync.err = "build" =>
       /\ ipsets = pre.ipsets
       /\ filter = EnsuredTable(pre.filter)
       /\ DOMAIN filter \ DOMAIN pre.filter \subseteq FixedChains
       /\ DOMAIN pre.filter \subseteq DOMAIN filter
       /\ \A c \in EnginePrefixedChains(pre.filter) \ DefaultChains : filter[c] = pre.filter[c]
       /\ PodJumps(filter) = PodJumps(pre.filter)
  /\ syncPc = "idle" => sync = NoSync /\ steps = <<>>

\* The build of a second sync has failed on a node with a per-pod chain, and
\* the installer steps before it have moved rules of the table.
C8_Witness ==
  /\ syncPc = "return" /\ sync.err = "build" /\ syncVersion >= 2
  /\ PodJumps(pre.filter) # {}
  /\ filter # pre.filter

\* C8 as stated: when the build fails the filter table and the ipsets are
\* exactly what they were before the sync started.
C8_BuildFailureKeepsHost ==
  sync.err = "build" => filter = pre.filter /\ ipsets = pre.ipsets

\* ------------------------------------------------------------ the pod jumps
\* The matches of the rules that send the traffic of a pod to its chain.
PodJumpMatches(ip) ==
  { "-d " \o ip, "-s " \o ip,
    "--physdev-is-bridged -d " \o ip, "--physdev-is-bridged -s " \o ip }

\* Table t has, in a custom chain, a jump for the pod IP to an installed
\* per-pod chain.
HasPodJump(t, ip) ==
  \E j \in PodJumps(t) : j[2].m \in PodJumpMatches(ip) /\ j[2].j \in DOMAIN t

\* C9 as stated: during a sync, every pod that is local and had a jump to a
\* per-pod chain when the sync started has one at every moment.
C9_JumpAtEveryMoment ==
  mu => \A p \in pods :
          (isLocalPod(p, nodeIP) /\ HasPodJump(pre.filter, p.ip)) => HasPodJump(filter, p.ip)

\* ------------------------------------------------------- garbage collection
\* C10: after a sync that completed without error, every chain with the
\* per-pod or per-policy prefix is in the active set of the sync or is a
\* default chain, every ipset with the source or destination prefix is in the
\* active set, and no per-pod or per-policy chain of the table the sync
\* started with is left.
C10_ActiveClosure ==
  (syncPc = "return" /\ sync.err = "") =>
    /\ EnginePrefixedChains(filter)
         \subseteq (sync.activePolicyChains \cup sync.activePodFwChains \cup DefaultChains)
    /\ EnginePrefixedSets(ipsets) \subseteq sync.activePolicyIPSets
    /\ EnginePrefixedChains(filter) \cap DOMAIN pre.filter \subseteq DefaultChains

\* A sync has completed that had the chains of an earlier sync and the sets
\* of a deleted policy to collect, and has installed chains of its own.
C10_Witness ==
  /\ syncPc = "return" /\ sync.err = ""
  /\ EnginePrefixedChains(pre.filter) \ DefaultChains # {}
  /\ EnginePrefixedSets(pre.ipsets) # {}
  /\ EnginePrefixedSets(ipsets) = {}
  /\ EnginePrefixedChains(filter) \ DefaultChains # {}


\* -------------------------------------------------------- the default chains
\* C11: the three default chains are never classified as stale and never
\* removed by garbage collection: whatever active sets are passed to
\* cleanupStaleRules for the table of any moment, no default chain is among the
\* stale chains; the stale chains a sync has found hold no default chain; and a
\* default chain of the table is in the table, with its rules, after every step.
C11_DefaultChainsNeverStale ==
  /\ [](\A active \in SUBSET EnginePrefixedChains(filter) :
          /\ StaleChains(filter, kubePodFirewallChainPrefix,
                         ActivePodFwChainsWithDefault(active)) \cap DefaultChains = {}
          /\ StaleChains(filter, kubeNetworkPolicyChainPrefix,
                         ActivePolicyChainsWithDefaults(active)) \cap DefaultChains = {})
  /\ []((sync.cleanupPodFwChains \cup sync.cleanupPolicyChains) \cap DefaultChains = {})
  /\ [][\A c \in DefaultChains \cap DOMAIN filter :
          c \in DOMAIN filter' /\ filter'[c] = filter[c]]_vars

\* A later sync has collected per-pod and per-policy chains and has restored
\* the table, and the three default chains are in it.
C11_Witness ==
  /\ syncPc = "return" /\ sync.err = "" /\ syncVersion >= 2
  /\ sync.cleanupPodFwChains # {} /\ sync.cleanupPolicyChains # {}
  /\ DefaultChains \subseteq DOMAIN filter


\* ------------------------------------------------------------ chain names
\* A name the engine may give a chain: one of the six fixed names, or a name
\* with the per-pod or the per-policy prefix.
IsEngineChainName(c) ==
  \/ c \in FixedChains
  \/ HasPrefix(c, kubePodFirewallChainPrefix)
  \/ HasPrefix(c, kubeNetworkPolicyChainPrefix)

\* C12: every chain the engine creates has one of the six fixed names or a
\* name that begins with KUBE-POD-FW- or KUBE-NWPLCY-: every chain a step adds
\* to the kernel table, every chain of the table that the host did not have,
\* and every chain the composed buffer declares beside those of the host.
C12_ChainNames ==
  /\ [][\A c \in DOMAIN filter' \ DOMAIN filter : IsEngineChainName(c)]_vars
  /\ [](\A c \in DOMAIN filter \ DOMAIN HostFilter0 : IsEngineChainName(c))
  /\ [](\A c \in DeclaredChains(sync.filterTableRules) \ DOMAIN HostFilter0 :
          IsEngineChainName(c))

\* A later sync has completed on a host that has the six fixed chains, a
\* per-pod chain and a per-policy chain beside the chains of the host.
C12_Witness ==
  /\ syncPc = "return" /\ sync.err = "" /\ syncVersion >= 2
  /\ FixedChains \subseteq DOMAIN filter
  /\ \E c \in DOMAIN filter \ FixedChains : HasPrefix(c, kubePodFirewallChainPrefix)
  /\ \E c \in DOMAIN filter \ FixedChains : HasPrefix(c, kubeNetworkPolicyChainPrefix)
  /\ DOMAIN HostFilter0 \subseteq DOMAIN filter


\* ------------------------------------------------------ the other host actor
\* The rules of a chain that are not the engine's: those that do not jump to
\* a chain with an engine name.
ForeignRules(rules) == SelectSeq(rules, LAMBDA rule : ~IsEngineChainName(rule.j))

\* C13 as stated: no step of a full sync deletes or modifies a chain or a
\* rule that is not the engine's: every chain without an engine name is in
\* the table after the step, with the rules of other actors it had before the
\* step, in their order.
C13_ForeignEntriesKept ==
  [][syncPc' # syncPc =>
       \A c \in { x \in DOMAIN filter : ~IsEngineChainName(x) } :
         /\ c \in DOMAIN filter'
         /\ ForeignRules(filter'[c]) = ForeignRules(filter[c])]_vars


\* ------------------------------------------------------- the built-in jumps
\* With the pod CIDR known: the jump to the custom chain is the first rule of
\* INPUT and of OUTPUT, and the source- and the destination-qualified jumps
\* are the first two rules of FORWARD.
JumpsFirst(t) ==
  /\ Len(t["INPUT"]) >= 1
  /\ t["INPUT"][1] = RuleBuiltinJump("-s " \o nodePodIPCIDR, kubeInputChainName)
  /\ Len(t["OUTPUT"]) >= 1
  /\ t["OUTPUT"][1] = RuleBuiltinJump("-d " \o nodePodIPCIDR, kubeOutputChainName)
  /\ Len(t["FORWARD"]) >= 2
  /\ t["FORWARD"][1] = RuleBuiltinJump("-s " \o nodePodIPCIDR, kubeForwardChainName)
  /\ t["FORWARD"][2] = RuleBuiltinJump("-d " \o nodePodIPCIDR, kubeForwardChainName)

\* Table t without the rules another actor has inserted.
WithoutOtherActor(t) ==
  [c \in DOMAIN t |-> SelectSeq(t[c], LAMBDA rule : rule # OtherActorRule)]

\* C14: the installer step of every sync leaves the jumps first, wherever
\* they were before the sync; no later step of the sync moves them; and after
\* every completed sync the jumps are ahead of every rule of the built-in
\* chains but those another actor has inserted since.
C14_JumpsFirst ==
  /\ [][(syncPc = "ensureTopLevelChains" /\ syncPc' # syncPc) => JumpsFirst(filter')]_vars
  /\ [][(/\ \E i \in 1..Len(steps) : steps[i] = "ensureTopLevelChains"
         /\ syncPc' # syncPc
         /\ JumpsFirst(filter)) => JumpsFirst(filter')]_vars
  /\ []((syncPc = "return" /\ sync.err = "") => JumpsFirst(WithoutOtherActor(filter)))

\* A sync has completed that started on a table where the rule of another
\* actor was ahead of the jumps of INPUT and of FORWARD, and the jumps are
\* first again.
C14_Witness ==
  /\ syncPc = "return" /\ sync.err = "" /\ syncVersion >= 2
  /\ pre.filter["INPUT"][1] = OtherActorRule
  /\ pre.filter["FORWARD"][1] = OtherActorRule
  /\ Exists(pre.filter, "INPUT", RuleBuiltinJump("-s " \o nodePodIPCIDR, kubeInputChainName))
  /\ Exists(pre.filter, "FORWARD", RuleBuiltinJump("-d " \o nodePodIPCIDR, kubeForwardChainName))
  /\ JumpsFirst(filter)


\* ------------------------------------------------ the tail of custom chains
\* C15: in every state in which a custom top-level chain exists, its last two
\* rules are the ACCEPT on mark 0x20000/0x20000 and then the jump to
\* KUBE-POD-FW-DEFAULT, and every jump to a per-pod chain is ahead of them.
C15_TailOfCustomChains ==
  \A i \in 1..Len(CustomChains) :
    CustomChains[i] \in DOMAIN filter =>
      LET rules == filter[CustomChains[i]]
          n == Len(rules)
      IN /\ n >= 2
         /\ rules[n - 1] = RuleMarkAccept
         /\ rules[n] = RuleDefaultPodFW
         /\ \A j \in PodJumps(filter) :
              j[1] = CustomChains[i] =>
                \E k \in 1..(n - 2) : rules[k] = j[2]
         /\ \A k \in (n - 1)..n :
              ~(\E j \in PodJumps(filter) : j[1] = CustomChains[i] /\ j[2] = rules[k])

\* A later sync has completed and every custom chain holds a jump to a
\* per-pod chain ahead of its last two rules.
C15_Witness ==
  /\ syncPc = "return" /\ sync.err = "" /\ syncVersion >= 2
  /\ \A i \in 1..Len(CustomChains) :
       \E j \in PodJumps(filter) : j[1] = CustomChains[i]
  /\ Len(filter[kubeInputChainName]) >= 7


\* ---------------------------------------------------- traffic of other hosts
\* Packets by their addresses: a local pod, a pod of another node, a host
\* outside the cluster.
PacketAddrs == {"10.1.2.5", "10.1.5.7", "198.51.100.9"}
Packets == [src : PacketAddrs, dst : PacketAddrs]

\* The address is in nodePodIPCIDR (a /24: the first three octets agree).
InPodCIDR(ip) ==
  HasPrefix(ip, SubSeq(nodePodIPCIDR, 1, Len(nodePodIPCIDR) - Len("0/24")))

\* The packet satisfies the match of a rule.  A match on something other
\* than an address (an interface, a port, a mark) is taken to be satisfied.
MatchesPacket(match, pkt) ==
  IF match = "-s " \o nodePodIPCIDR THEN InPodCIDR(pkt.src)
  ELSE IF match = "-d " \o nodePodIPCIDR THEN InPodCIDR(pkt.dst)
  ELSE IF HasPrefix(match, "-s ") THEN pkt.src = SubSeq(match, 4, Len(match))
  ELSE IF HasPrefix(match, "-d ") THEN pkt.dst = SubSeq(match, 4, Len(match))
  ELSE TRUE

\* The rules of a chain the packet matches, in the order of the chain.
MatchedRules(rules, pkt) == SelectSeq(rules, LAMBDA rule : MatchesPacket(rule.m, pkt))

\* C16: with the pod CIDR known, a packet whose source and destination are
\* both outside the pod CIDR matches no rule of INPUT, FORWARD or OUTPUT that
\* jumps to a chain of the engine, and the rules of each built-in chain it
\* matches are those it matches on the host without the engine, in the same
\* order: its verdict is the verdict without the engine's rules.
C16_OutsideTrafficBypasses ==
  \A pkt \in Packets :
    (~InPodCIDR(pkt.src) /\ ~InPodCIDR(pkt.dst)) =>
      \A b \in BuiltinChains :
        /\ \A k \in 1..Len(filter[b]) :
             IsEngineChainName(filter[b][k].j) => ~MatchesPacket(filter[b][k].m, pkt)
        /\ MatchedRules(filter[b], pkt) = MatchedRules(HostFilter0[b], pkt)

\* A later sync has completed, the jumps to the custom chains are installed
\* with the jumps of a local pod behind them, and a packet from the local pod
\* to a host outside the cluster does match the jump of FORWARD.
C16_Witness ==
  /\ syncPc = "return" /\ sync.err = "" /\ syncVersion >= 2
  /\ JumpsFirst(filter)
  /\ PodJumps(filter) # {}
  /\ nodePodIPCIDR # ""
  /\ MatchedRules(filter["FORWARD"], [src |-> "10.1.2.5", dst |-> "198.51.100.9"])
       # MatchedRules(HostFilter0["FORWARD"], [src |-> "10.1.2.5", dst |-> "198.51.100.9"])


\* ------------------------------------------------------- per-pod chain names
\* Namespaces, pod names and versions the name function is applied to, short
\* ones and ones longer than the token.
NameNamespaces == {"a", "ap", "kube-system"}
NamePodNames == {"p1", "1", "coredns-5d78c9869d-abcde"}
NameVersions == { FormatInt(v) : v \in 1..MaxSyncs }

\* The name of a per-pod chain: the prefix, then exactly TokenLen characters.
IsPodChainName(c) ==
  /\ HasPrefix(c, kubePodFirewallChainPrefix)
  /\ Len(c) = Len(kubePodFirewallChainPrefix) + TokenLen

\* C17: podFirewallChainName(namespace, podName, version) is the prefix
\* followed by exactly 16 characters, whatever the lengths of its arguments;
\* the chain a sync makes active for a pod is the value of the function for
\* the pod's namespace and name and the sync's version and depends on nothing
\* else; every per-pod chain of the kernel table has that one length.
C17_PodChainNameShape ==
  /\ \A namespace \in NameNamespaces : \A podName \in NamePodNames : \A version \in NameVersions :
       IsPodChainName(podFirewallChainName(namespace, podName, version))
  /\ ((syncPc \in {"cleanupStaleRules", "Restore", "Destroy"} \/ (syncPc = "return" /\ sync.err = ""))
       => sync.activePodFwChains \ {KubeDefaultPodFWChain}
            = { podFirewallChainName(p.namespace, p.name, sync.version) :
                  p \in { q \in pods : isLocalPod(q, nodeIP) } })
  /\ \A c \in DOMAIN filter :
       (HasPrefix(c, kubePodFirewallChainPrefix) /\ c # KubeDefaultPodFWChain)
         => IsPodChainName(c)

\* A later sync has completed on a node with two local pods, and the table
\* holds the two per-pod chains of the sync.
C17_Witness ==
  /\ syncPc = "return" /\ sync.err = "" /\ syncVersion >= 2
  /\ Cardinality(sync.activePodFwChains \ {KubeDefaultPodFWChain}) = 2
  /\ sync.activePodFwChains \subseteq DOMAIN filter


\* C18 as stated: within one sync, two local pods with different (namespace,
\* pod name) pairs have different input strings (namespace, pod name and
\* version written one after the other) and different per-pod chain names.
C18_DistinctPodsDistinctChains ==
  mu => \A p, q \in { x \in pods : isLocalPod(x, nodeIP) } :
          << p.namespace, p.name >> # << q.namespace, q.name >> =>
            /\ p.namespace \o p.name \o sync.version # q.namespace \o q.name \o sync.version
            /\ podFirewallChainName(p.namespace, p.name, sync.version)
                 # podFirewallChainName(q.namespace, q.name, sync.version)


\* ------------------------------------------------------------- two syncs
\* The name a versioned chain has under version `new` if `c` is its name
\* under version `old`; any other name is kept.
RenamedChain(c, old, new) ==
  LET podsNamed == { p \in PodUniverse \cup {PodOfOtherNamespace} :
                       c = podFirewallChainName(p.namespace, p.name, old) }
      policiesNamed == { np \in PolicyUniverse :
                           c = networkPolicyChainName(np.namespace, np.name, old) }
  IN IF podsNamed # {}
     THEN LET p == CHOOSE x \in podsNamed : TRUE
          IN podFirewallChainName(p.namespace, p.name, new)
     ELSE IF policiesNamed # {}
     THEN LET np == CHOOSE x \in policiesNamed : TRUE
          IN networkPolicyChainName(np.namespace, np.name, new)
     ELSE c

RenamedRule(rule, old, new) ==
  MkRule(rule.m, RenamedChain(rule.j, old, new), RenamedChain(rule.c, old, new))

\* Table t with its versioned chains renamed from version `old` to `new`.
Renamed(t, old, new) ==
  [c2 \in { RenamedChain(c, old, new) : c \in DOMAIN t } |->
     LET c == CHOOSE x \in DOMAIN t : RenamedChain(x, old, new) = c2
     IN [k \in 1..Len(t[c]) |-> RenamedRule(t[c][k], old, new)]]

\* The sync in progress started on the table the sync before it installed
\* for the same local pods and policies: the versioned chains of that table
\* are those of the previous version.
PreviousSyncInstalled ==
  /\ syncVersion >= 2
  /\ EnginePrefixedChains(pre.filter) \ DefaultChains
       = { podFirewallChainName(p.namespace, p.name, FormatInt(syncVersion - 1)) :
             p \in { q \in pods : isLocalPod(q, nodeIP) } }
         \cup { networkPolicyChainName(np.namespace, np.name, FormatInt(syncVersion - 1)) :
                  np \in policies }

\* C19 as stated: after the second of two successive syncs of an unchanged
\* cluster the filter table has the chains, the rules and the order of rules
\* it had after the first, up to the renaming of the versioned chains.
C19_SameTableSameOrder ==
  (syncPc = "return" /\ sync.err = "" /\ PreviousSyncInstalled) =>
    filter = Renamed(pre.filter, FormatInt(syncVersion - 1), sync.version)


\* The rule is one written for the pod with this IP: a jump to the pod's
\* chain from a custom chain, or a rule of the pod's chain on its address.
IsRuleOfPod(rule, ip) ==
  rule.m \in PodJumpMatches(ip) \cup {"--src-type LOCAL -d " \o ip}

LocalPodIPs == { p.ip : p \in { q \in pods : isLocalPod(q, nodeIP) } }

\* The number of times the rule is in the chain.
Occurrences(rules, rule) == Cardinality({ k \in 1..Len(rules) : rules[k] = rule })

\* Tables t1 and t2 have the same chains, and each chain holds the same
\* rules the same number of times, in the same order but for the order of
\* the rules written for one local pod and those written for another: a
\* chain with the rules of at most one pod is the same; in any chain the
\* rules of each pod are in the same order; in a custom chain the rules of
\* no pod are in the same order and no rule is there twice.
SameUpToPodOrder(t1, t2) ==
  /\ DOMAIN t1 = DOMAIN t2
  /\ \A c \in DOMAIN t1 :
       /\ Len(t1[c]) = Len(t2[c])
       /\ \A k \in 1..Len(t1[c]) :
            Occurrences(t1[c], t1[c][k]) = Occurrences(t2[c], t1[c][k])
       /\ \A ip \in LocalPodIPs :
            SelectSeq(t1[c], LAMBDA rule : IsRuleOfPod(rule, ip))
              = SelectSeq(t2[c], LAMBDA rule : IsRuleOfPod(rule, ip))
       /\ Cardinality({ ip \in LocalPodIPs :
                          \E k \in 1..Len(t1[c]) : IsRuleOfPod(t1[c][k], ip) }) <= 1
            => t1[c] = t2[c]
       /\ c \in { CustomChains[i] : i \in 1..Len(CustomChains) } =>
            /\ SelectSeq(t1[c], LAMBDA rule : \A ip \in LocalPodIPs : ~IsRuleOfPod(rule, ip))
                 = SelectSeq(t2[c], LAMBDA rule : \A ip \in LocalPodIPs : ~IsRuleOfPod(rule, ip))
            /\ \A k, l \in 1..Len(t1[c]) : k # l => t1[c][k] # t1[c][l]

\* C19 (as the code has it): after the second of two successive syncs of an
\* unchanged cluster the filter table has the chains and the rules it had
\* after the first, up to the renaming of the versioned chains: no rule is
\* there twice and no chain has grown, and the rules are in the same order
\* but for the jumps of different local pods in the custom chains, which
\* are inserted in the order a Go map yields the pods.
C19_SameTableUpToPodOrder ==
  (syncPc = "return" /\ sync.err = "" /\ PreviousSyncInstalled) =>
    SameUpToPodOrder(filter, Renamed(pre.filter, FormatInt(syncVersion - 1), sync.version))

\* A second sync of two local pods and a policy has completed, and the
\* jumps of the two pods are in another order than after the first.
C19_Witness ==
  /\ syncPc = "return" /\ sync.err = "" /\ PreviousSyncInstalled
  /\ policies # {}
  /\ Cardinality(sync.activePodFwChains \ {KubeDefaultPodFWChain}) = 2
  /\ filter # Renamed(pre.filter, FormatInt(syncVersion - 1), sync.version)


\* ------------------------------------------------- a peer pod changes its IP
\* The sync in progress has written into a source or destination set of a
\* policy another membership than the set had when the sync started.
PeerIPChanged ==
  \E n \in EnginePrefixedSets(pre.ipsets) \cap DOMAIN ipsets : ipsets[n] # pre.ipsets[n]

\* C20 as stated: a sync that follows a change only in the IP of a remote
\* peer pod leaves every chain name unchanged and does not increase the
\* number of chains.
C20_ChainNamesUnchanged ==
  (syncPc = "return" /\ sync.err = "" /\ PreviousSyncInstalled /\ PeerIPChanged) =>
    /\ DOMAIN filter = DOMAIN pre.filter
    /\ Cardinality(DOMAIN filter) <= Cardinality(DOMAIN pre.filter)

\* C20 (as the code has it): a sync that follows a completed sync and no
\* change but in the IP of a remote pod leaves the number of chains as it
\* was: every chain without a version in its name is kept under its name,
\* every per-pod and per-policy chain is replaced by the chain of the same
\* pod or policy under the name of the new version, no chain of the old
\* version is left, and the names of the ipsets are unchanged.
C20_ChainsRenamedNotGrown ==
  (syncPc = "return" /\ sync.err = "" /\ PreviousSyncInstalled) =>
    LET old == FormatInt(syncVersion - 1)
    IN /\ DOMAIN filter = { RenamedChain(c, old, sync.version) : c \in DOMAIN pre.filter }
       /\ Cardinality(DOMAIN filter) = Cardinality(DOMAIN pre.filter)
       /\ \A c \in DOMAIN pre.filter :
            IF c \in EnginePrefixedChains(pre.filter) \ DefaultChains
            THEN c \notin DOMAIN filter /\ RenamedChain(c, old, sync.version) # c
            ELSE c \in DOMAIN filter /\ RenamedChain(c, old, sync.version) = c
       /\ DOMAIN ipsets = DOMAIN pre.ipsets

\* A sync has completed that followed a completed sync and a change of the
\* IP of the remote peer r1: the source set of the policy now holds the new
\* IP, and the per-pod and per-policy chains have the names of the new version.
C20_Witness ==
  /\ syncPc = "return" /\ sync.err = "" /\ PreviousSyncInstalled /\ PeerIPChanged
  /\ \E n \in EnginePrefixedSets(ipsets) :
       ipsets[n] = {"10.1.5.8"} /\ pre.ipsets[n] = {"10.1.5.7"}
  /\ DOMAIN filter # DOMAIN pre.filter


\* ------------------------------------------------- the per-pod firewall chain
\* What a rule of a per-pod chain is.
RuleKind(rule) ==
  IF rule.j = "ACCEPT" /\ rule.m = "--ctstate RELATED,ESTABLISHED" THEN "conntrack"
  ELSE IF rule.j = "ACCEPT" /\ HasPrefix(rule.m, "--src-type LOCAL -d ") THEN "local"
  ELSE IF HasPrefix(rule.j, kubeNetworkPolicyChainPrefix) THEN "policy"
  ELSE IF rule.j = "MARK --set-mark 0/0x10000" THEN "reset"
  ELSE IF rule.j = "MARK --set-mark 0x20000/0x20000" THEN "admit"
  ELSE IF rule.j = "NFLOG" /\ rule.m = "! --mark 0x10000/0x10000" THEN "log"
  ELSE IF rule.j = "REJECT" /\ rule.m = "! --mark 0x10000/0x10000" THEN "reject"
  ELSE "other"

RuleKinds(rules) == [k \in 1..Len(rules) |-> RuleKind(rules[k])]

\* The per-pod chains of table t.
PodChains(t) ==
  { c \in DOMAIN t : HasPrefix(c, kubePodFirewallChainPrefix) /\ c # KubeDefaultPodFWChain }

\* The place of a kind of rule in the order the claim gives.
ClaimedPlace(kind) ==
  CASE kind = "conntrack" -> 1
    [] kind = "local" -> 2
    [] kind = "policy" -> 3
    [] kind = "reset" -> 4
    [] kind = "admit" -> 5
    [] kind = "log" -> 6
    [] kind = "reject" -> 7
    [] OTHER -> 8

\* C21 as stated: in every installed per-pod chain the rules are in the
\* order conntrack accept, LOCAL accept, policy jumps, mark reset, set-mark
\* 0x20000, log, reject.
C21_ClaimedChainOrder ==
  \A c \in PodChains(filter) :
    \A k, l \in 1..Len(filter[c]) :
      k < l => ClaimedPlace(RuleKind(filter[c][k])) <= ClaimedPlace(RuleKind(filter[c][l]))

\* C21 (as the code has it): every installed per-pod chain is, in this
\* order: the conntrack accept and the jumps of the outbound direction (to
\* the policy chains, or to the default egress chain for packets from the
\* pod); the conntrack accept, the accept of LOCAL-source traffic to the pod
\* and the jumps of the inbound direction (to the policy chains, or to the
\* default ingress chain for packets to the pod); the log rule and the reject
\* rule on mark != 0x10000/0x10000; the mark-reset rule and the set-mark
\* 0x20000/0x20000 rule.
C21_PodChainOrder ==
  \A c \in PodChains(filter) :
    \E n, m \in 1..Len(filter[c]) :
      /\ RuleKinds(filter[c])
           = <<"conntrack">> \o [i \in 1..n |-> "policy"]
             \o <<"conntrack", "local">> \o [i \in 1..m |-> "policy"]
             \o <<"log", "reject", "reset", "admit">>
      /\ \A k \in 2..(n + 1) :
           /\ filter[c][k].j # kubeIngressNetpolChain
           /\ filter[c][k].j = kubeEgressNetpolChain
                => n = 1 /\ HasPrefix(filter[c][k].m, "-s ")
      /\ \A k \in (n + 4)..(n + m + 3) :
           /\ filter[c][k].j # kubeEgressNetpolChain
           /\ filter[c][k].j = kubeIngressNetpolChain
                => m = 1 /\ HasPrefix(filter[c][k].m, "-d ")

\* A later sync has completed and the table holds the chain of a pod that a
\* policy targets, with the jumps to the chain of the policy.
C21_Witness ==
  /\ syncPc = "return" /\ sync.err = "" /\ syncVersion >= 2
  /\ \E c \in PodChains(filter) :
       \E k \in 1..Len(filter[c]) :
         /\ RuleKind(filter[c][k]) = "policy"
         /\ filter[c][k].j \notin DefaultChains


\* ------------------------------------------- the jumps of the two directions
\* The position of the second conntrack accept, of the LOCAL accept and of the
\* log rule of a per-pod chain.
SecondConntrackAt(rules) ==
  CHOOSE k \in 2..Len(rules) :
    /\ RuleKind(rules[k]) = "conntrack"
    /\ \A l \in 2..(k - 1) : RuleKind(rules[l]) # "conntrack"
LocalAcceptAt(rules) == CHOOSE k \in 1..Len(rules) : RuleKind(rules[k]) = "local"
LogAt(rules) == CHOOSE k \in 1..Len(rules) : RuleKind(rules[k]) = "log"

\* The jumps a per-pod chain holds for the outbound and the inbound direction.
OutboundJumps(rules) == SubSeq(rules, 2, SecondConntrackAt(rules) - 1)
InboundJumps(rules) == SubSeq(rules, LocalAcceptAt(rules) + 1, LogAt(rules) - 1)

\* The chains of the policies of the sync that target the pod and apply to a
\* direction.
ApplicableChains(pod, types) ==
  { networkPolicyChainName(sync.networkPoliciesInfo[i].namespace,
                           sync.networkPoliciesInfo[i].name, sync.version) :
      i \in { k \in 1..Len(sync.networkPoliciesInfo) :
                /\ pod.ip \in sync.networkPoliciesInfo[k].targetPods
                /\ sync.networkPoliciesInfo[k].policyType \in types } }

\* The jumps of one direction are those to the applicable chains, or the one
\* jump to the default chain when no chain is applicable.
JumpsAsApplicable(jumps, applicable, defaultChain) ==
  /\ \A k \in 1..Len(jumps) :
       \/ jumps[k].j \in applicable
       \/ applicable = {} /\ jumps[k].j = defaultChain
  /\ applicable = {} => \E k \in 1..Len(jumps) : jumps[k].j = defaultChain

\* C22: after a completed sync the per-pod chain of a local pod jumps, for
\* the inbound direction, only to chains of policies that target the pod and
\* are of type ingress or both, and for the outbound direction only to chains
\* of policies that target it and are of type egress or both; a direction
\* with no such policy has the jump to its default chain.
C22_JumpsByPolicyType ==
  (syncPc = "return" /\ sync.err = "")
    => \A pod \in { q \in PodUniverse : isLocalPod(q, nodeIP) } :
         LET c == podFirewallChainName(pod.namespace, pod.name, sync.version)
         IN c \in DOMAIN filter
              => /\ JumpsAsApplicable(InboundJumps(filter[c]),
                                      ApplicableChains(pod, {"ingress", "both"}),
                                      kubeIngressNetpolChain)
                 /\ JumpsAsApplicable(OutboundJumps(filter[c]),
                                      ApplicableChains(pod, {"egress", "both"}),
                                      kubeEgressNetpolChain)


\* ------------------------------------------------- the whitelist RETURN rules
\* The rule is a jump to a per-pod chain.
IsPodJumpRule(rule) ==
  HasPrefix(rule.j, kubePodFirewallChainPrefix) /\ rule.j # KubeDefaultPodFWChain

\* The positions of the RETURN rules and of the jumps to per-pod chains.
ReturnPositions(rules) == { k \in 1..Len(rules) : rules[k].j = "RETURN" }
PodJumpPositions(rules) == { k \in 1..Len(rules) : IsPodJumpRule(rules[k]) }

\* C23: after every completed sync on a node with at least one local pod, the
\* RETURN rules (service cluster IP range, TCP and UDP node ports, each
\* external IP range) are the head of KUBE-ROUTER-INPUT and precede every
\* jump to a per-pod chain.
C23_WhitelistAtHead ==
  (/\ syncPc = "return" /\ sync.err = ""
   /\ PodJumpPositions(filter[kubeInputChainName]) # {})
    => /\ ReturnPositions(filter[kubeInputChainName])
            = 1..(3 + Len(serviceExternalIPRanges))
       /\ \A k \in ReturnPositions(filter[kubeInputChainName]) :
            \A l \in PodJumpPositions(filter[kubeInputChainName]) : k < l


\* -------------------------------------------------------------------- Cleanup
\* The chains of the engine: those with one of its three prefixes.
EngineChains(t) ==
  { c \in DOMAIN t :
      \/ HasPrefix(c, kubePodFirewallChainPrefix)
      \/ HasPrefix(c, kubeNetworkPolicyChainPrefix)
      \/ HasPrefix(c, "KUBE-ROUTER-") }

\* The host holds nothing of the engine and is as it was before the engine
\* ran.
HostWithoutEngine ==
  /\ EngineChains(filter) = {}
  /\ \A c \in BuiltinChains : \A k \in 1..Len(filter[c]) :
       ~(\/ HasPrefix(filter[c][k].j, kubePodFirewallChainPrefix)
         \/ HasPrefix(filter[c][k].j, kubeNetworkPolicyChainPrefix)
         \/ HasPrefix(filter[c][k].j, "KUBE-ROUTER-"))
  /\ EnginePrefixedSets(ipsets) = {}
  /\ filter = HostFilter0
  /\ ipsets = HostIPSets0

\* C24: a Cleanup on a host where a sync completed with local pods (the
\* custom chains hold jumps to per-pod chains) leaves no chain of the engine,
\* no jump to one in a built-in chain and no ipset of the engine: the host is
\* as it was before the engine ran.
C24_CleanupRestoresHost ==
  [][(Cleanup /\ PodJumps(filter) # {}) => HostWithoutEngine']_vars


\* ------------------------------------------------------------------- shutdown
\* C25: once stopCh is closed the full sync goroutine and the ticker loop of
\* Run exit; a sync in flight is not interrupted: it goes on to its return,
\* the mutex is released only by that return, and the goroutine does not exit
\* while its call of fullPolicySync has not returned.
C25_ShutdownExits ==
  /\ stopCh ~> (consumerPc = "exited" /\ tickerPc = "exited")
  /\ (stopCh /\ mu) ~> (syncPc = "return")
  /\ [][(mu /\ ~mu') => (syncPc = "return" /\ SyncReturn)]_vars
  /\ [](calls > 0 => consumerPc # "exited")

\* stopCh is closed, the ticker loop has exited and a sync that is in flight
\* has reached its return without an error.
C25_Witness ==
  /\ stopCh /\ tickerPc = "exited"
  /\ mu /\ syncPc = "return" /\ sync.err = ""
  /\ consumerPc # "exited"


\* ------------------------------------------------------------------ heartbeat
\* The number of heartbeats the running sync has sent.
HeartBeats == Cardinality({ k \in 1..Len(steps) : steps[k] = "heartbeat" })

\* C26: every execution of fullPolicySync sends one heartbeat and no other,
\* as the first thing it does under the mutex: the step that takes the mutex
\* sends it and neither changes the host nor has read the listers or the
\* table, and each later phase of the sync, up to its return with or without
\* an error, finds that one heartbeat sent before it.
C26_OneHeartBeatAtStart ==
  /\ [](mu => (HeartBeats = 1 /\ steps[1] = "heartbeat"))
  /\ [][(~mu /\ mu')
          => /\ steps' = <<"heartbeat">>
             /\ filter' = filter /\ ipsets' = ipsets
             /\ sync'.networkPoliciesInfo = <<>> /\ sync'.filterTableRules = <<>>
             /\ sync'.activePodFwChains = {}]_vars
  /\ [][(mu /\ ~mu') => (HeartBeats = 1 /\ steps[1] = "heartbeat")]_vars

\* A later sync that aborted after some of its phases is at its return.
C26_Witness ==
  /\ mu /\ syncPc = "return" /\ sync.err # "" /\ Len(steps) >= 3
  /\ syncVersion >= 2


\* --------------------------------------------------------------- construction
\* The node port range of the call is not a range of valid ports: it is not
\* written as digits, one ':' or '-', digits; or one of its ports is greater
\* than 65535; or its first port is not less than its second.
InvalidNodePortRange ==
  \/ ~construction.first.isNumber
  \/ ~construction.second.isNumber
  \/ construction.separator \notin {":", "-"}
  \/ construction.first.n > 65535
  \/ construction.second.n > 65535
  \/ construction.first.n >= construction.second.n

\* C27: NewNetworkPolicyController returns an error and no controller when
\* the node port range has a port greater than 65535 or a first port greater
\* than or equal to the second, or is not written as digits, one ':' or '-',
\* digits.
C27_BadNodePortRangeFails ==
  (construction.returned /\ InvalidNodePortRange)
    => /\ construction.err # ""
       /\ ~construction.controller
       /\ construction.serviceNodePortRange = ""

\* The constructor has returned for the range "80:65536".
C27_Witness ==
  /\ construction.returned
  /\ construction.NodePortRange = "80:65536"
  /\ InvalidNodePortRange


\* ------------------------------------------------------------ the local pods
\* The pod is one the engine enforces policy for: it is on this node, not in
\* the host network, and has an IP.
IsEnforcedPod(pod) == isLocalPod(pod, nodeIP) /\ ~pod.hostNetwork /\ pod.ip # ""

\* C28: after a completed sync the table holds the per-pod chain of a pod of
\* the lister exactly when the pod is on this node, not in the host network
\* and has an IP; each such pod has a chain of its own, also when two such
\* pods report one IP, and the table holds no other per-pod chain.
C28_ChainForEachLocalPod ==
  (syncPc = "return" /\ sync.err = "")
    => /\ \A pod \in pods :
            podFirewallChainName(pod.namespace, pod.name, sync.version) \in DOMAIN filter
              <=> IsEnforcedPod(pod)
       /\ Cardinality(PodChains(filter))
            = Cardinality({ pod \in pods : IsEnforcedPod(pod) })


\* ------------------------------------------------------- the update handler
\* The old and the new pod of an update differ in phase, in pod IP or in
\* labels.
DifferInPhaseIPOrLabels(oldPodObj, newPodObj) ==
  \/ oldPodObj.phase # newPodObj.phase
  \/ oldPodObj.ip # newPodObj.ip
  \/ oldPodObj.labels # newPodObj.labels

\* C29: once readyForUpdates is set, an update event of a pod makes a sync
\* request (the slot is full after it, the request counted) exactly when the
\* old and the new pod differ in phase, pod IP or labels; an update that
\* changes none of the three leaves the request slot and the state of the
\* controller as they are.
C29_UpdateRequestsIffRelevant ==
  [][\A oldPodObj \in UpdatedPods : \A newPodObj \in UpdatedPods :
       (readyForUpdates /\ PodUpdate(oldPodObj, newPodObj))
         => IF DifferInPhaseIPOrLabels(oldPodObj, newPodObj)
            THEN /\ fullSyncRequestChan' = ChanCap
                 /\ burst' = BurstOnRequest
                 /\ UNCHANGED << readyForUpdates, stopCh, mu, consumerPc, tickerPc, calls,
                                 syncPc, syncVersion, sync, filter, ipsets, pre, steps >>
            ELSE UNCHANGED << fullSyncRequestChan, burst, readyForUpdates, stopCh, mu,
                              consumerPc, tickerPc, calls, syncPc, syncVersion, sync,
                              filter, ipsets, pre, steps, policies >>]_vars

\* Event processing is enabled, the consumer waits for a request, and the
\* slot holds the request of an update that changed the labels of the pod.
C29_Witness ==
  /\ readyForUpdates
  /\ fullSyncRequestChan = ChanCap
  /\ consumerPc = "select" /\ ~mu
  /\ \E p \in pods : p.name = "r1" /\ p.labels # {} 


\* ------------------------------------------------- requests are followed up
\* A call of RequestFullSync: the ticker loop's, or that of a handler whose
\* event changed the cache once event processing is enabled.
RequestFullSyncCalled ==
  \/ tickerPc = "request" /\ tickerPc' = "select"
  \/ readyForUpdates /\ pods' # pods

\* C30: every call of RequestFullSync, whether it put its request into the
\* slot or found the slot full, leaves a request in the slot, and a request
\* in the slot is followed by the start of a full sync (a sync that takes the
\* mutex after the call) unless the controller is stopped (or the run has
\* used its MaxSyncs syncs).
C30_RequestFollowedBySync ==
  /\ [][RequestFullSyncCalled => fullSyncRequestChan' = ChanCap]_vars
  /\ \A n \in 0..MaxSyncs :
       (fullSyncRequestChan = ChanCap /\ syncVersion = n)
         ~> (syncVersion > n \/ stopCh \/ syncVersion >= MaxSyncs)

\* Two or more requests were made during one sync, and the sync that follows
\* them has taken the mutex.
C30_Witness ==
  /\ burst.phase = "after" /\ burst.n >= 2 /\ burst.extra = 1
  /\ mu /\ syncPc = "ensureDefaultPodFWChains"
  /\ ~stopCh


\* ------------------------------------------------------ the periodic request
\* C31: Run calls RequestFullSync when it starts, before it waits for a tick,
\* and again after every tick; so, unless the controller is stopped, every
\* full sync is followed by another one, an aborted sync and a sync that ran
\* while pod events were discarded included, whether or not an event arrives
\* (up to the MaxSyncs syncs of a run).
C31_TickRedrivesSync ==
  /\ (tickerPc = "request" /\ fullSyncRequestChan = 0 /\ syncVersion = 0)
  /\ [][(tickerPc = "request" /\ tickerPc' # "request")
          => (tickerPc' = "select" /\ fullSyncRequestChan' = ChanCap)]_vars
  /\ [][(tickerPc = "select" /\ tickerPc' # "select")
          => tickerPc' \in {"request", "exited"}]_vars
  /\ \A n \in 0..(MaxSyncs - 1) :
       (syncVersion = n) ~> (syncVersion > n \/ stopCh)
  /\ \A n \in 1..(MaxSyncs - 1) :
       (syncPc = "return" /\ sync.err # "" /\ syncVersion = n)
         ~> (syncVersion > n \/ stopCh)

\* A sync has aborted while event processing is not enabled, no request is in
\* the slot and the ticker loop waits for its tick.
C31_Witness ==
  /\ syncPc = "return" /\ sync.err # ""
  /\ ~readyForUpdates /\ ~stopCh
  /\ fullSyncRequestChan = 0 /\ tickerPc = "select"
  /\ syncVersion < MaxSyncs


\* ------------------------------------------------- packets in the pod chains
\* How netfilter takes a packet through the chains of a table.  A packet is
\* its addresses, whether conntrack knows its connection and whether it
\* crosses the bridge; NodeAddress is the address of this host (the one
\* source of type LOCAL).
NodeAddress == "n1"
TraversingPackets ==
  [src : {"10.1.2.5", "10.1.2.6", "10.1.5.7", NodeAddress},
   dst : {"10.1.2.5", "10.1.2.6", "10.1.5.7", NodeAddress},
   established : BOOLEAN, bridged : BOOLEAN]

MarkPolicyMatched == "0x10000"
MarkAdmitted == "0x20000"

\* The address test "-s <address or CIDR>" / "-d <address or CIDR>".  The
\* packets have no address in a CIDR other than the pod CIDR.
AddressMatches(test, pkt) ==
  LET addr == IF HasPrefix(test, "-s ") THEN pkt.src ELSE pkt.dst
      what == SubSeq(test, 4, Len(test))
  IN IF what = nodePodIPCIDR THEN InPodCIDR(addr)
     ELSE IF \E k \in 1..Len(what) : SubSeq(what, k, k) = "/" THEN FALSE
     ELSE addr = what

\* The packet with mark `mark` satisfies the match of a rule.
RuleMatches(match, pkt, mark, sets) ==
  IF match = "" THEN TRUE
  ELSE IF match = "--ctstate RELATED,ESTABLISHED" THEN pkt.established
  ELSE IF HasPrefix(match, "--src-type LOCAL ")
       THEN /\ pkt.src = NodeAddress
            /\ AddressMatches(SubSeq(match, Len("--src-type LOCAL ") + 1, Len(match)), pkt)
  ELSE IF match = "! --mark 0x10000/0x10000" THEN MarkPolicyMatched \notin mark
  ELSE IF match = "--mark 0x20000/0x20000" THEN MarkAdmitted \in mark
  ELSE IF HasPrefix(match, "--physdev-is-bridged ")
       THEN /\ pkt.bridged
            /\ AddressMatches(SubSeq(match, Len("--physdev-is-bridged ") + 1, Len(match)), pkt)
  ELSE IF HasPrefix(match, "match-set ")
       THEN LET nameLen == Len(kubeSourceIPSetPrefix) + TokenLen
                srcSet == SubSeq(match, Len("match-set ") + 1, Len("match-set ") + nameLen)
                dstAt == Len("match-set ") + nameLen + Len(" src match-set ")
                dstSet == SubSeq(match, dstAt + 1, dstAt + nameLen)
            IN /\ srcSet \in DOMAIN sets /\ pkt.src \in sets[srcSet]
               /\ dstSet \in DOMAIN sets /\ pkt.dst \in sets[dstSet]
  ELSE IF HasPrefix(match, "-s ") \/ HasPrefix(match, "-d ") THEN AddressMatches(match, pkt)
  ELSE IF HasPrefix(match, "-p ") THEN pkt.dst = NodeAddress
  ELSE FALSE

\* A packet on its way: its mark, its verdict ("" while it has none), and
\* what happened to it: a policy chain or default chain set 0x10000, a rule
\* set 0x20000, and the per-pod chains it entered with the mark it had then.
PacketAt(mark) ==
  [mark |-> mark, verdict |-> "", policyMatched |-> FALSE, admitted |-> FALSE,
   entered |-> <<>>]

\* The effect of a target that does not end the traversal.
ApplyTarget(target, chain, st) ==
  IF target = "MARK --set-xmark 0x10000/0x10000"
  THEN [st EXCEPT !.mark = @ \cup {MarkPolicyMatched},
                  !.policyMatched = @ \/ HasPrefix(chain, kubeNetworkPolicyChainPrefix)]
  ELSE IF target = "MARK --set-mark 0/0x10000"
  THEN [st EXCEPT !.mark = @ \ {MarkPolicyMatched}]
  ELSE IF target = "MARK --set-mark 0x20000/0x20000"
  THEN [st EXCEPT !.mark = @ \cup {MarkAdmitted}, !.admitted = TRUE]
  ELSE st

RECURSIVE Traverse(_, _, _, _, _, _)
\* The packet goes through the rules of `chain` from rule k on: ACCEPT and
\* REJECT end the traversal, RETURN and the end of the chain hand the packet
\* back to the calling chain, a jump takes it through the chain jumped to.
Traverse(t, sets, chain, k, pkt, st) ==
  IF k > Len(t[chain]) THEN st
  ELSE LET rule == t[chain][k]
       IN IF ~RuleMatches(rule.m, pkt, st.mark, sets)
          THEN Traverse(t, sets, chain, k + 1, pkt, st)
          ELSE IF rule.j \in {"ACCEPT", "REJECT"} THEN [st EXCEPT !.verdict = rule.j]
          ELSE IF rule.j = "RETURN" THEN st
          ELSE IF rule.j \in DOMAIN t
               THEN LET in == IF IsPodJumpRule(rule)
                              THEN [st EXCEPT !.entered = Append(@, [chain |-> rule.j,
                                                                       mark |-> st.mark])]
                              ELSE st
                        back == Traverse(t, sets, rule.j, 1, pkt, in)
                    IN IF back.verdict # "" THEN back
                       ELSE Traverse(t, sets, chain, k + 1, pkt, back)
               ELSE Traverse(t, sets, chain, k + 1, pkt, ApplyTarget(rule.j, chain, st))

\* The packet was accepted by the conntrack rule or by the rule for traffic
\* of LOCAL source of the per-pod chain.
AcceptedAtHead(pkt, st) ==
  st.verdict = "ACCEPT"

\* C32: a packet that enters an installed per-pod chain without the bit
\* 0x10000 and is not accepted by the conntrack or LOCAL-source rule is
\* marked 0x20000 by the chain exactly when a policy chain or default chain
\* set 0x10000 during the traversal; it then comes to the end of the chain.  A
\* packet that gets to the tail without 0x10000 is rejected and not marked.
C32_AdmittedIffPolicyMatched ==
  (syncPc = "return")
    => \A c \in PodChains(filter) : \A pkt \in TraversingPackets :
         \A mark \in SUBSET {MarkAdmitted} :
           LET st == Traverse(filter, ipsets, c, 1, pkt, PacketAt(mark))
           IN ~AcceptedAtHead(pkt, st)
                => /\ st.admitted <=> st.policyMatched
                   /\ st.policyMatched => (st.verdict = "" /\ MarkAdmitted \in st.mark)
                   /\ ~st.policyMatched => (st.verdict = "REJECT" /\ ~st.admitted)

\* A sync with the policy np1 has returned, and of two packets to the local
\* pod that enter its chain without a mark, the one from the peer of the
\* policy is marked 0x20000 and the one from the pod itself is rejected.
C32_Witness ==
  /\ syncPc = "return" /\ sync.err = "" /\ Len(sync.networkPoliciesInfo) > 0
  /\ \E c \in PodChains(filter) :
       \E pkt1, pkt2 \in TraversingPackets :
         /\ ~pkt1.established /\ ~pkt2.established
         /\ pkt1.src = "10.1.5.7" /\ pkt1.dst = "10.1.2.5"
         /\ pkt2.src = "10.1.2.5" /\ pkt2.dst = "10.1.2.5"
         /\ Traverse(filter, ipsets, c, 1, pkt1, PacketAt({})).admitted
         /\ Traverse(filter, ipsets, c, 1, pkt2, PacketAt({})).verdict = "REJECT"


\* The packets from one local pod to another.
PodToPodPackets ==
  { pkt \in TraversingPackets :
      \E A, B \in pods :
        /\ isLocalPod(A, nodeIP) /\ ~A.hostNetwork /\ A.ip = pkt.src
        /\ isLocalPod(B, nodeIP) /\ ~B.hostNetwork /\ B.ip = pkt.dst
        /\ A.ip # B.ip }

\* The chains a packet entered on its way.
EnteredChains(st) == { st.entered[k].chain : k \in 1..Len(st.entered) }

\* The chain sets 0x10000 on a packet that enters it without a mark.
SetsPolicyMark(c, pkt) ==
  Traverse(filter, ipsets, c, 1, pkt, PacketAt({})).policyMatched

\* C33: after a completed sync, a packet from a local pod A to a local pod B
\* that goes through a custom chain and enters the per-pod chains of both
\* enters each of them with the bit 0x10000 clear, and, when conntrack does not
\* know it, is accepted by the rule on the mark 0x20000 only if each of the
\* per-pod chains it entered sets 0x10000 on it by itself.
C33_MarkClearedBetweenChains ==
  (syncPc = "return" /\ sync.err = "")
    => \A k \in 1..Len(CustomChains) : \A pkt \in PodToPodPackets :
         LET st == Traverse(filter, ipsets, CustomChains[k], 1, pkt, PacketAt({}))
         IN Cardinality(EnteredChains(st)) >= 2
              => /\ \A n \in 1..Len(st.entered) : MarkPolicyMatched \notin st.entered[n].mark
                 /\ (st.verdict = "ACCEPT" /\ ~pkt.established)
                      => \A c \in EnteredChains(st) : SetsPolicyMark(c, pkt)

\* A sync has completed with two local pods and no policy, and a packet from
\* the one to the other that conntrack does not know went through both per-pod
\* chains of the forward chain and was accepted on its mark 0x20000.
C33_Witness ==
  /\ syncPc = "return" /\ sync.err = ""
  /\ \E pkt \in PodToPodPackets :
       LET st == Traverse(filter, ipsets, kubeForwardChainName, 1, pkt, PacketAt({}))
       IN /\ ~pkt.established
          /\ Cardinality(EnteredChains(st)) = 2
          /\ st.verdict = "ACCEPT"
          /\ MarkAdmitted \in st.mark


\* ------------------------------------------------- the rule at its position
\* The rules of a chain other than the tracked rule, in their order.
OtherRules(rules) == SelectSeq(rules, LAMBDA rule : rule # RuleMarkAccept)

\* The chain with the tracked rule once, at `position`, and the other rules
\* as they were.
WithRuleAt(rules, position) ==
  LET others == OtherRules(rules)
  IN SubSeq(others, 1, position - 1) \o <<RuleMarkAccept>>
       \o SubSeq(others, position, Len(others))

\* The chain after the first call of the closure.
AfterFirstCall ==
  IF Len(steps) = 1 THEN filter[kubeForwardChainName] ELSE steps[2].before

\* C34: for any contents of the chain and any position that is a place of the
\* resulting chain, ensureRuleAtPosition leaves the tracked rule in the chain
\* once and at the position, with every other rule kept and in its order; a
\* chain that has the rule at the position is left as it is, and a second call
\* changes nothing.
C34_RuleOnceAtPosition ==
  (/\ Len(steps) >= 1
   /\ steps[1].position <= Len(OtherRules(steps[1].before)) + 1)
    => /\ AfterFirstCall = WithRuleAt(steps[1].before, steps[1].position)
       /\ (/\ steps[1].position <= Len(steps[1].before)
           /\ steps[1].before[steps[1].position] = RuleMarkAccept)
            => AfterFirstCall = steps[1].before
       /\ Len(steps) = 2 => filter[kubeForwardChainName] = AfterFirstCall


\* ------------------------------------------------- the order of the clean-up
\* The place of a phase among the phases the sync has gone through (0: not
\* among them).
PhaseAt(phase) ==
  IF \E k \in 1..Len(steps) : steps[k] = phase
  THEN CHOOSE k \in 1..Len(steps) : steps[k] = phase
  ELSE 0

\* A rule of the table names the ipset in a match-set.
SetReferenced(t, name) ==
  \E c \in DOMAIN t : \E k \in 1..Len(t[c]) :
    \E at \in 1..(Len(t[c][k].m) - Len(name) + 1) :
      SubSeq(t[c][k].m, at, at + Len(name) - 1) = name

\* The ipsets a step destroys.
DestroyedSets == DOMAIN ipsets \ DOMAIN ipsets'

\* C35: in the garbage collection the jumps to the stale per-pod chains are
\* deleted, then the table is restored, then the stale ipsets are destroyed:
\* an ipset is destroyed only by the step that follows a restore that has
\* succeeded, no rule of the table names it then, and a sync whose restore
\* failed returns with every ipset in place.
C35_GarbageCollectionOrder ==
  /\ [][(syncPc = "Restore" /\ syncPc' # "Restore")
          => /\ PhaseAt("cleanupStaleRules") > 0
             /\ \A k \in 1..Len(CustomChains) : \A n \in 1..Len(filter[CustomChains[k]]) :
                  filter[CustomChains[k]][n].j \notin sync.cleanupPodFwChains
             /\ DestroyedSets = {}
             /\ (sync'.err # "") => (syncPc' = "return")]_vars
  /\ [][(DestroyedSets # {})
          => /\ syncPc = "Destroy" /\ sync.err = ""
             /\ 0 < PhaseAt("cleanupStaleRules")
             /\ PhaseAt("cleanupStaleRules") < PhaseAt("Restore")
             /\ PhaseAt("Restore") = Len(steps)
             /\ DestroyedSets \subseteq sync.cleanupPolicyIPSets
             /\ \A name \in DestroyedSets : ~SetReferenced(filter, name)]_vars
  /\ [][(syncPc = "return" /\ sync.err = "restore" /\ syncPc' # "return")
          => /\ PhaseAt("Destroy") = 0
             /\ sync.cleanupPolicyIPSets \subseteq DOMAIN ipsets]_vars

\* A sync that followed the removal of the policy has restored the table and
\* destroyed the ipsets of the policy.
C35_Witness ==
  /\ syncPc = "return" /\ sync.err = ""
  /\ PhaseAt("Destroy") > 0
  /\ sync.cleanupPolicyIPSets # {}
  /\ sync.cleanupPolicyIPSets \cap DOMAIN ipsets = {}


\* ------------------------------------------------------------ stop and sync
\* C36: once stopCh is closed the full sync goroutine calls fullPolicySync no
\* more, whether or not a request is in the slot.
C36_NoSyncAfterStop ==
  [][stopCh => calls' <= calls]_vars


\* ------------------------------------------------------ the frame of Cleanup
\* The rules of a chain that name no per-pod or per-policy chain.
RulesWithoutPrefix(rules) ==
  SelectSeq(rules, LAMBDA rule :
    ~(\/ HasPrefix(rule.j, kubePodFirewallChainPrefix)
      \/ HasPrefix(rule.c, kubePodFirewallChainPrefix)
      \/ HasPrefix(rule.j, kubeNetworkPolicyChainPrefix)))

C38_ValidNodePortRangeAccepted ==
  (/\ construction.returned
   /\ construction.first.isNumber /\ construction.second.isNumber
   /\ construction.separator \in {":", "-"}
   /\ construction.first.n < construction.second.n
   /\ construction.second.n <= 65535)
    => /\ construction.err = ""
       /\ construction.controller
       /\ construction.serviceNodePortRange =
            FormatInt(construction.first.n) \o ":" \o FormatInt(construction.second.n)


C40_HandlersOnlyRequest ==
  /\ [][(pods' # pods)
          => /\ UNCHANGED << mu, calls, syncPc, syncVersion, sync, pre, steps, filter, ipsets,
                             readyForUpdates, stopCh, consumerPc, tickerPc, policies >>
             /\ fullSyncRequestChan' \in {fullSyncRequestChan, fullSyncRequestChan + 1}
             /\ fullSyncRequestChan' <= ChanCap
             /\ fullSyncRequestChan' # fullSyncRequestChan => readyForUpdates]_vars
  /\ [](mu => /\ \A p \in RemotePods : p \in pods => ENABLED PodDelete(p)
              /\ \A p \in RemotePods :
                   (\A q \in pods : q.name # p.name) => ENABLED PodAdd(p)
              /\ \A pair \in PodUpdates :
                   pair[1] \in pods => ENABLED PodUpdate(pair[1], pair[2]))

\* A sync holds the mutex and is at its restore, event processing is enabled,
\* and a handler has put a request into the slot during the sync.
C40_Witness ==
  /\ mu /\ syncPc = "Restore" /\ readyForUpdates
  /\ burst.phase = "counting" /\ burst.n >= 1
  /\ fullSyncRequestChan = ChanCap /\ tickerPc = "select"

====
